---- MODULE Spec2Model ----
(***************************************************************************)
(* Model of the agent orchestration of data_migration_agent                *)
(* (src/agents/openai_agents.py, class AzureOpenAIAgents):                 *)
(*   - generate_python_sdk_code: the Agent 3A / 3B / 3C regeneration loop   *)
(*   - validate_generated_code : the Agent 3C validator                     *)
(*   - _generate_transform_dataflow_script / _method_code: the             *)
(*     deterministic transform data flow generator                         *)
(*   - analyze_csv_structure_v2 / _create_fallback_analysis /              *)
(*     _normalize_dimensions: the Agent 1 schema split                     *)
(*                                                                         *)
(* Generated Python code is modelled as a sequence of fragments.  Each     *)
(* fragment stands for one top-level piece of source text:                 *)
(*   DeployFull    def deploy_complete_solution(self, sql_config,          *)
(*                                              blob_config): pass         *)
(*   DeployNoSql   def deploy_complete_solution(self, blob_config): pass   *)
(*   DeployNoBlob  def deploy_complete_solution(self, sql_config): pass    *)
(*   DeployNone    def deploy_complete_solution(self): pass                *)
(*   CastVarchar   s = "A cast(output(x as varchar(50))) ~> C"             *)
(*   CastDatetime  s = "A cast(output(x as datetime)) ~> C"                *)
(*   CastBigint    s = "A cast(output(x as bigint)) ~> C"                  *)
(*   CastInteger   s = "A cast(output(x as integer)) ~> C"                 *)
(*   EmptyDerive   s = "A derive() ~> D"                                   *)
(*   LoadTrans     t = "Transformation(name='LoadDimX')"                   *)
(*   SyntaxErr     def (                                                   *)
(*   Ws            a blank line                                            *)
(* The text of an issue or of a feedback is a sequence of text pieces; a   *)
(* text contains an issue when the issue is one of its pieces.             *)
(***************************************************************************)
EXTENDS Integers, Sequences, FiniteSets, TLC

\* ------------------------------------------------------------------ bounds
\* longest code (in fragments) given to a direct validate_generated_code call
MaxCodeLen == 3
\* longest code (in fragments) the Agent 3B text generation returns in the loop
MaxLoopCodeLen == 1

\* most dimensions in the schema split given to the deterministic generator
MaxDims == 2
\* most columns of the DataFrame given to analyze_csv_structure_v2
MaxCols == 3
\* most columns of the DataFrame given to _create_fallback_datatypes
MaxTypeCols == 2
\* most chunks of a stream read by _stream_chat_completion
MaxChunks == 3
\* most codes written into a UI session (generated or auto-fixed)
MaxGenerations == 2
\* most pipeline runs started in a UI session
MaxRuns == 2

\* --------------------------------------------------------- program constants
\* generate_python_sdk_code: max_retries = 2
max_retries == 2
\* _create_fallback_datatypes: the threshold 2147483647
INT_MAX == 2147483647

VARIABLES
    \* ---- generate_python_sdk_code (the regeneration loop)
    client,               \* self.client is not None
    pc,                   \* position in generate_python_sdk_code
    missing_input,        \* which required argument of the call is None/empty
    agent3a_decision,     \* local agent3a_decision
    attempt,              \* loop variable attempt (0-based)
    validation_feedback,  \* local validation_feedback
    code,                 \* local code
    validation_result,    \* local validation_result
    result,               \* what the call returned, or that it raised
    planner_calls,        \* validation_feedback argument of every Agent 3A call
    generator_calls,      \* agent3a_decision argument of every Agent 3B call
    generated,            \* the code every Agent 3B call returned
    validator_calls,      \* generated_code argument of every Agent 3C call
    verdicts,             \* the verdict every Agent 3C call returned
    service_error,        \* the text generation failed Agent 3B (error, blank text)
    \* ---- a direct call of validate_generated_code
    v_client,             \* self.client is not None
    v_code,               \* argument generated_code
    v_reply,              \* what the text generation answered, if asked
    v_verdict,            \* the returned dict
    v_pc,
    \* ---- a call of the deterministic generator _generate_complete_sdk_code
    g_input,              \* its arguments
    g_script,             \* transform_script, as its sequence of steps
    g_transformations,    \* names in the emitted "transformations = [...]"
    g_sinks,              \* names of the sinks the emitted code registers
    g_names,              \* resource_names, the dataset entries of self.names
    g_code,               \* the returned code, as its fragments
    g_run,                \* outcome of running the emitted create_transform_dataflow
    g_pc,
    \* ---- a call of analyze_csv_structure_v2, then of _normalize_dimensions
    s_client,             \* self.client is not None
    s_df,                 \* argument df: its columns with their dtypes
    s_reply,              \* what the text generation answered, if asked
    s_split,              \* the returned schema split
    s_normalized,         \* _normalize_dimensions(split['dimensions'])
    s_pc,
    \* ---- a call of _create_fallback_datatypes
    t_df,                 \* argument df: its columns with dtype and statistics
    t_columns,            \* result["columns"], in the order of df.columns
    t_pc,
    \* ---- a call of _stream_chat_completion
    st_chunks,            \* the chunks the service streams when nothing fails
    st_fail_at,           \* where streaming raises (NoFailure: nowhere)
    st_nonstreamed,       \* outcome of the request with stream = False
    st_container,         \* stream_container given and show_in_container
    st_pos,               \* chunks read so far
    st_full_response,     \* local full_response
    st_shown,             \* last text written to stream_container
    st_result,            \* outcome of the call
    st_pc,
    \* ---- a call of deploy_generated_code
    d_setup,              \* what precedes the deployment: "ok", "no_class", "missing_credentials"
    d_signature,          \* parameters of the generated deploy_complete_solution
    d_config,             \* the SQL and blob settings are all set
    d_target,             \* behaviour of the deployment target
    d_calls,              \* calls of deploy_complete_solution made
    d_runs,               \* executions of the body of deploy_complete_solution
    d_deployed,           \* st.session_state.pipeline_instance is set
    d_result,             \* the pair returned
    d_pc,
    \* ---- a call of run_pipeline
    r_name,               \* argument pipeline_name
    r_client,             \* get_adf_client returns a client
    r_service,            \* behaviour of create_run
    r_calls,              \* calls of create_run made
    r_result,             \* the pair returned
    r_pc,
    \* ---- the UI session (st.session_state of app.py); a code is the number of
    \* the generation that wrote it, AbsentCode or NoneCode
    ui_generated_code,     \* session_state.generated_code
    ui_deployment_success, \* session_state.deployment_success: "absent", "true", "false"
    ui_pipeline_instance,  \* the text whose instance is session_state.pipeline_instance
    ui_pipeline_started,   \* session_state.pipeline_started
    ui_generations,        \* codes written so far
    ui_code_azure_ml,      \* for each code written: how 'AzureMLExecutePipelineActivity' is in it
    ui_pipeline_names,     \* session_state.pipeline_names: "absent" or a kind of names
    ui_runs                \* for each run_pipeline call: the code held and the code deployed

loop_vars == <<client, pc, missing_input, agent3a_decision, attempt,
               validation_feedback, code, validation_result, result,
               planner_calls, generator_calls, generated, validator_calls,
               verdicts, service_error>>
val_vars == <<v_client, v_code, v_reply, v_verdict, v_pc>>
gen_vars == <<g_input, g_script, g_transformations, g_sinks, g_names, g_code,
              g_run, g_pc>>
split_vars == <<s_client, s_df, s_reply, s_split, s_normalized, s_pc>>
type_vars == <<t_df, t_columns, t_pc>>
stream_vars == <<st_chunks, st_fail_at, st_nonstreamed, st_container, st_pos,
                 st_full_response, st_shown, st_result, st_pc>>
deploy_vars == <<d_setup, d_signature, d_config, d_target, d_calls, d_runs,
                 d_deployed, d_result, d_pc,
                 r_name, r_client, r_service, r_calls, r_result, r_pc>>
ui_vars == <<ui_generated_code, ui_deployment_success, ui_pipeline_instance,
             ui_pipeline_started, ui_generations, ui_code_azure_ml,
             ui_pipeline_names, ui_runs>>
vars == <<loop_vars, val_vars, gen_vars, split_vars, type_vars, stream_vars,
          deploy_vars, ui_vars>>

\* ------------------------------------------------------------ code fragments
DeployFragments == {"DeployFull", "DeployNoSql", "DeployNoBlob", "DeployNone"}
CastFragments == {"CastVarchar", "CastDatetime", "CastBigint", "CastInteger"}
Fragments == DeployFragments \cup CastFragments \cup
             {"EmptyDerive", "LoadTrans", "SyntaxErr", "Ws"}

RECURSIVE SeqsUpTo(_, _)
SeqsUpTo(S, n) ==
    IF n = 0 THEN {<<>>}
    ELSE LET shorter == SeqsUpTo(S, n - 1)
         IN shorter \cup {Append(s, x) : s \in {t \in shorter : Len(t) = n - 1}, x \in S}

Codes == SeqsUpTo(Fragments, MaxCodeLen)
LoopCodes == SeqsUpTo(Fragments, MaxLoopCodeLen)

\* the type token written in a cast fragment
CastTypeToken(f) ==
    CASE f = "CastVarchar" -> "varchar"
      [] f = "CastDatetime" -> "datetime"
      [] f = "CastBigint" -> "bigint"
      [] f = "CastInteger" -> "integer"

\* spec.md section 6: the closed canonical type vocabulary (decimal stands for
\* decimal(p,s))
CanonicalVocabulary == {"string", "integer", "long", "double", "decimal",
                        "boolean", "timestamp", "date", "byte", "binary"}

\* -------------------------------------------------------------- issue texts
IssueEmptyCode == "Generated code is empty"
IssueNoSqlConfig == "The 'deploy_complete_solution' method is missing required parameter: 'sql_config'"
IssueNoBlobConfig == "The 'deploy_complete_solution' method is missing required parameter: 'blob_config'"
IssueNoDeploy == "The 'deploy_complete_solution' method definition was not found in the generated code"
IssueSqlType(t) ==
    CASE t = "varchar" -> "SQL type 'varchar' found in cast operation - ADF only supports: string, integer, long, double, decimal, boolean, timestamp, date"
      [] t = "datetime" -> "SQL type 'datetime' found in cast operation - ADF only supports: string, integer, long, double, decimal, boolean, timestamp, date"
IssueSyntax == "Python syntax error: invalid syntax"
IssueEmptyDerive == "Empty derive() transformation found - derive() must have expressions or be removed. This causes 'missing input stream' error in ADF."
IssueLoadTrans == "Load* name found in transformations array - Load* names are sinks, not transformations. This causes 'missing input stream' error in ADF."
IssueUnparsed == "Validation agent output could not be parsed"
IssueException == "Validation error: api"
IssueSkipped == "Validation skipped - Agent 3A failed, using fallback generation"
\* issues the text generation may list in its own verdict
LlmIssueA == "missing column Email in DimCustomer"
LlmIssueB == "column count mismatch in FactVisit"

\* a text contains an issue
Contains(text, issue) == \E i \in DOMAIN text : text[i] = issue

\* ------------------------------------------------------------------ verdicts
\* A verdict is the value validate_generated_code returns.  kind = "dict" for
\* a JSON object; "nondict" for any other JSON value (list, null, number).
\* is_valid is "true", "false" or "absent"; issues_kind is "list", "null" or
\* "absent"; feedback is a text when has_feedback.
MkVerdict(k, v, ik, is, hf, fb) ==
    [kind |-> k, is_valid |-> v, issues_kind |-> ik, issues |-> is,
     has_feedback |-> hf, feedback |-> fb]

NoVerdict == MkVerdict("none", "absent", "absent", <<>>, FALSE, <<>>)

\* replies of the text generation to the validation prompt
ValidatorReplies ==
    {[tag |-> "api_error", json |-> NoVerdict],
     [tag |-> "garbage", json |-> NoVerdict],
     [tag |-> "json", json |-> MkVerdict("nondict", "absent", "absent", <<>>, FALSE, <<>>)]}
    \cup
    {[tag |-> "json", json |-> MkVerdict("dict", v, ik, is, hf, fb)] :
        v \in {"true", "false", "absent"},
        ik \in {"list"},
        is \in {<<>>, <<LlmIssueA, LlmIssueB>>},
        hf \in {TRUE},
        fb \in {<<"Please fix the code">>, <<LlmIssueA>>, <<LlmIssueA, LlmIssueB>>}}
    \cup
    {[tag |-> "json", json |-> MkVerdict("dict", "false", "null", <<>>, FALSE, <<>>)],
     [tag |-> "json", json |-> MkVerdict("dict", "false", "absent", <<>>, FALSE, <<>>)],
     [tag |-> "json", json |-> MkVerdict("dict", "true", "absent", <<>>, FALSE, <<>>)]}

NoReply == [tag |-> "not_called", json |-> NoVerdict]

\* ------------------------------------------------- validate_generated_code
\* len(generated_code.strip()) == 0
IsBlank(c) == \A i \in DOMAIN c : c[i] = "Ws"

\* Pre-check 1: re.search finds the first deploy_complete_solution definition
HasDeploy(c) == \E i \in DOMAIN c : c[i] \in DeployFragments
FirstDeploy(c) ==
    c[CHOOSE i \in DOMAIN c : /\ c[i] \in DeployFragments
                              /\ \A j \in 1..(i - 1) : c[j] \notin DeployFragments]
SignatureIssues(c) ==
    IF HasDeploy(c)
    THEN (IF FirstDeploy(c) \in {"DeployFull", "DeployNoBlob"} THEN <<>> ELSE <<IssueNoSqlConfig>>)
         \o (IF FirstDeploy(c) \in {"DeployFull", "DeployNoSql"} THEN <<>> ELSE <<IssueNoBlobConfig>>)
    ELSE <<IssueNoDeploy>>

\* Pre-check 2: the SQL types (nvarchar|varchar|datetime2|datetime|char|nchar|
\* text|ntext) the two patterns find in cast operations
SqlTypePatternTypes == {"nvarchar", "varchar", "datetime2", "datetime",
                        "char", "nchar", "text", "ntext"}
\* the second pattern also requires "(" after the type
FollowedByParen(f) == f = "CastVarchar"
PatternMatches(f, pattern) ==
    /\ f \in CastFragments
    /\ CastTypeToken(f) \in SqlTypePatternTypes
    /\ (pattern = 2 => FollowedByParen(f))

RECURSIVE ScanSqlTypes(_, _, _, _)
\* one finditer pass of a pattern over the code, from fragment i on; found is
\* pre_check_details["sql_types_in_cast"]
ScanSqlTypes(c, pattern, i, found) ==
    IF i > Len(c) THEN found
    ELSE IF PatternMatches(c[i], pattern) /\ ~Contains(found, CastTypeToken(c[i]))
         THEN ScanSqlTypes(c, pattern, i + 1, Append(found, CastTypeToken(c[i])))
         ELSE ScanSqlTypes(c, pattern, i + 1, found)

SqlTypesInCast(c) == ScanSqlTypes(c, 2, 1, ScanSqlTypes(c, 1, 1, <<>>))
SqlTypeIssues(c) ==
    LET found == SqlTypesInCast(c)
    IN [i \in DOMAIN found |-> IssueSqlType(found[i])]

\* Pre-check 3: compile(generated_code, '<string>', 'exec')
SyntaxIssues(c) ==
    IF \E i \in DOMAIN c : c[i] = "SyntaxErr" THEN <<IssueSyntax>> ELSE <<>>

\* Pre-check 4: derive\s*\(\s*\)\s*~>  (flagged once)
EmptyDeriveIssues(c) ==
    IF \E i \in DOMAIN c : c[i] = "EmptyDerive" THEN <<IssueEmptyDerive>> ELSE <<>>

\* Pre-check 5: Transformation(name='Load...')  (flagged once)
LoadTransIssues(c) ==
    IF \E i \in DOMAIN c : c[i] = "LoadTrans" THEN <<IssueLoadTrans>> ELSE <<>>

pre_check_issues(c) ==
    SignatureIssues(c) \o SqlTypeIssues(c) \o SyntaxIssues(c)
        \o EmptyDeriveIssues(c) \o LoadTransIssues(c)

\* the verdict built from the reply of the text generation
ReplyVerdict(reply) ==
    CASE reply.tag = "api_error" ->
            MkVerdict("dict", "false", "list", <<IssueException>>, TRUE,
                      <<"Validation agent encountered an error: api. Please review the code manually.">>)
      [] reply.tag = "garbage" ->
            MkVerdict("dict", "false", "list", <<IssueUnparsed>>, TRUE,
                      <<"The validation agent encountered an error. Please review the code manually.">>)
      [] reply.tag = "json" -> reply.json

\* does the call reach the text generation
AsksTextGeneration(cl, c) == cl /\ ~IsBlank(c) /\ pre_check_issues(c) = <<>>

validate_generated_code(cl, c, reply) ==
    IF ~cl
    THEN MkVerdict("dict", "true", "list", <<>>, TRUE,
                   <<"Validation skipped - OpenAI client not available">>)
    ELSE IF IsBlank(c)
    THEN MkVerdict("dict", "false", "list", <<IssueEmptyCode>>, TRUE,
                   <<"The generated code is empty. Please regenerate the code.">>)
    ELSE IF pre_check_issues(c) # <<>>
    THEN MkVerdict("dict", "false", "list", pre_check_issues(c), TRUE,
                   <<"Pre-validation checks failed:">> \o pre_check_issues(c))
    ELSE ReplyVerdict(reply)

\* ------------------------------------------------------------------ Agent 3A
\* replies of the text generation to the decision prompt
PlannerReplies == {"api_error", "garbage", "json_dict", "json_empty_dict",
                   "json_list", "json_null"}

\* A decision is the value generate_pipeline_prompt returns: None, a JSON
\* object ("dict"), the empty JSON object, or another JSON value ("list").
\* id is the index of the Agent 3A call that produced it.
NoDecision == [kind |-> "none", id |-> 0]
Truthy(decision) == decision.kind \in {"dict", "list"}

generate_pipeline_prompt(cl, missing, reply, id) ==
    IF missing # "nothing" THEN NoDecision
    ELSE IF ~cl THEN NoDecision
    ELSE CASE reply = "api_error" -> NoDecision
           [] reply = "garbage" -> NoDecision
           [] reply = "json_null" -> NoDecision
           [] reply = "json_dict" -> [kind |-> "dict", id |-> id]
           [] reply = "json_empty_dict" -> [kind |-> "empty_dict", id |-> id]
           [] reply = "json_list" -> [kind |-> "list", id |-> id]

\* ------------------------------------------------------------------ Agent 3B
\* replies of the text generation to the code prompt
GeneratorReplies ==
    {[tag |-> "api_error", text |-> <<>>]}
    \cup {[tag |-> "text", text |-> c] : c \in LoopCodes}

\* generate_python_sdk_code_from_prompt raises ...
GeneratorReplyFails(reply) == reply.tag = "api_error" \/ IsBlank(reply.text)
GeneratorRaises(cl, decision, reply) ==
    \/ ~cl
    \/ decision.kind \notin {"dict", "empty_dict"}
    \/ GeneratorReplyFails(reply)
\* ... or returns the generated code
generate_python_sdk_code_from_prompt(cl, decision, reply) == reply.text

\* --------------------------------------------------- generate_python_sdk_code
NoFeedback == [given |-> FALSE, text |-> <<>>]
Feedback(text) == [given |-> TRUE, text |-> text]

NoResult ==
    [status |-> "none", code |-> <<>>, validation_result |-> NoVerdict,
     attempt_count |-> -1, final_validation_status |-> FALSE,
     agent3a_decision |-> NoDecision]
Raised == [NoResult EXCEPT !.status = "raised"]
Returned(c, v, n, ok, d) ==
    [status |-> "returned", code |-> c, validation_result |-> v,
     attempt_count |-> n, final_validation_status |-> ok,
     agent3a_decision |-> d]

\* the 0-based loop index returned as it is
attempt_count_zero_based(att) == att
\* "attempt_count": attempt + 1
attempt_count(att) == att + 1

\* validation_result.get('is_valid', False)
VerdictPasses(v) == v.kind = "dict" /\ v.is_valid = "true"
\* reading the verdict raises: .get on a value that is no dict, len(None)
VerdictHandlingRaises(v) ==
    \/ v.kind # "dict"
    \/ ~VerdictPasses(v) /\ v.issues_kind = "null"
\* validation_result.get('feedback', 'No specific feedback provided')
FeedbackOf(v) ==
    IF v.has_feedback THEN v.feedback ELSE <<"No specific feedback provided">>

\* the call: argument checks (lines 4210-4215)
Call ==
    /\ pc = "idle"
    /\ \E m \in {"nothing", "csv_analysis", "datatype_analysis", "destination_tables"} :
         /\ missing_input' = m
         /\ IF m = "nothing"
            THEN pc' = "plan" /\ UNCHANGED result
            ELSE pc' = "done" /\ result' = Raised
    /\ UNCHANGED <<client, agent3a_decision, attempt, validation_feedback, code,
                   validation_result, planner_calls, generator_calls, generated,
                   validator_calls, verdicts, service_error>>
    /\ UNCHANGED <<val_vars, gen_vars, split_vars, type_vars, stream_vars, deploy_vars, ui_vars>>

\* the first Agent 3A call (lines 4232-4254)
Plan ==
    /\ pc = "plan"
    /\ \E reply \in PlannerReplies :
         agent3a_decision' = generate_pipeline_prompt(client, missing_input, reply,
                                                      Len(planner_calls) + 1)
    /\ planner_calls' = Append(planner_calls, NoFeedback)
    /\ pc' = IF Truthy(agent3a_decision') THEN "generate" ELSE "fallback"
    /\ attempt' = 0
    /\ validation_feedback' = NoFeedback
    /\ UNCHANGED <<client, missing_input, code, validation_result, result,
                   generator_calls, generated, validator_calls, verdicts,
                   service_error>>
    /\ UNCHANGED <<val_vars, gen_vars, split_vars, type_vars, stream_vars, deploy_vars, ui_vars>>

\* Agent 3B generates the code of this attempt (lines 4279-4290)
Generate ==
    /\ pc = "generate"
    /\ generator_calls' = Append(generator_calls, agent3a_decision)
    /\ \E reply \in GeneratorReplies :
         IF GeneratorRaises(client, agent3a_decision, reply)
         THEN /\ pc' = "done"
              /\ result' = Raised
              /\ service_error' = (service_error \/ GeneratorReplyFails(reply))
              /\ UNCHANGED <<code, generated>>
         ELSE /\ pc' = "validate"
              /\ code' = generate_python_sdk_code_from_prompt(client, agent3a_decision, reply)
              /\ generated' = Append(generated, code')
              /\ UNCHANGED <<result, service_error>>
    /\ UNCHANGED <<client, missing_input, agent3a_decision, attempt,
                   validation_feedback, validation_result, planner_calls,
                   validator_calls, verdicts>>
    /\ UNCHANGED <<val_vars, gen_vars, split_vars, type_vars, stream_vars, deploy_vars, ui_vars>>

\* Agent 3C validates the code of this attempt (lines 4295-4305)
Validate ==
    /\ pc = "validate"
    /\ validator_calls' = Append(validator_calls, code)
    /\ \E reply \in ValidatorReplies :
         validation_result' = validate_generated_code(client, code, reply)
    /\ verdicts' = Append(verdicts, validation_result')
    /\ pc' = "decide"
    /\ UNCHANGED <<client, missing_input, agent3a_decision, attempt,
                   validation_feedback, code, result, planner_calls,
                   generator_calls, generated, service_error>>
    /\ UNCHANGED <<val_vars, gen_vars, split_vars, type_vars, stream_vars, deploy_vars, ui_vars>>

\* the verdict passes: return (lines 4307-4316)
ReturnPassed ==
    /\ pc = "decide"
    /\ ~VerdictHandlingRaises(validation_result)
    /\ VerdictPasses(validation_result)
    /\ result' = Returned(code, validation_result, attempt_count(attempt), TRUE, agent3a_decision)
    /\ pc' = "done"
    /\ UNCHANGED <<client, missing_input, agent3a_decision, attempt,
                   validation_feedback, code, validation_result, planner_calls,
                   generator_calls, generated, validator_calls, verdicts,
                   service_error>>
    /\ UNCHANGED <<val_vars, gen_vars, split_vars, type_vars, stream_vars, deploy_vars, ui_vars>>

\* reading the verdict raises; the except clause re-raises (lines 4441-4445)
VerdictRaises ==
    /\ pc = "decide"
    /\ VerdictHandlingRaises(validation_result)
    /\ result' = Raised
    /\ pc' = "done"
    /\ UNCHANGED <<client, missing_input, agent3a_decision, attempt,
                   validation_feedback, code, validation_result, planner_calls,
                   generator_calls, generated, validator_calls, verdicts,
                   service_error>>
    /\ UNCHANGED <<val_vars, gen_vars, split_vars, type_vars, stream_vars, deploy_vars, ui_vars>>

\* the verdict fails and attempts remain: Agent 3A is asked again with the
\* feedback and its answer replaces agent3a_decision (lines 4317-4340)
Regenerate ==
    /\ pc = "decide"
    /\ ~VerdictHandlingRaises(validation_result)
    /\ ~VerdictPasses(validation_result)
    /\ attempt < max_retries - 1
    /\ validation_feedback' = Feedback(FeedbackOf(validation_result))
    /\ planner_calls' = Append(planner_calls, validation_feedback')
    /\ \E reply \in PlannerReplies :
         agent3a_decision' = generate_pipeline_prompt(client, missing_input, reply,
                                                      Len(planner_calls) + 1)
    /\ attempt' = attempt + 1
    /\ pc' = "generate"
    /\ UNCHANGED <<client, missing_input, code, validation_result, result,
                   generator_calls, generated, validator_calls, verdicts,
                   service_error>>
    /\ UNCHANGED <<val_vars, gen_vars, split_vars, type_vars, stream_vars, deploy_vars, ui_vars>>

\* the verdict fails on the last attempt: return (lines 4341-4350)
ReturnFailed ==
    /\ pc = "decide"
    /\ ~VerdictHandlingRaises(validation_result)
    /\ ~VerdictPasses(validation_result)
    /\ ~(attempt < max_retries - 1)
    /\ validation_feedback' = Feedback(FeedbackOf(validation_result))
    /\ result' = Returned(code, validation_result, attempt_count(attempt), FALSE, agent3a_decision)
    /\ pc' = "done"
    /\ UNCHANGED <<client, missing_input, agent3a_decision, attempt, code,
                   validation_result, planner_calls, generator_calls, generated,
                   validator_calls, verdicts, service_error>>
    /\ UNCHANGED <<val_vars, gen_vars, split_vars, type_vars, stream_vars, deploy_vars, ui_vars>>

\* ------------------------------------------- the deterministic code generator
\* col.replace(' ', '_').replace('-', '_').replace('.', '_')
CleanCol(col) ==
    CASE col = "Visit Date" -> "Visit_Date"
      [] OTHER -> col

\* substring tests on lower-cased names
ContainsAge(col) == col \in {"Age"}
ContainsYearExperience(col) == col \in {"Years_of_Experience"}
ContainsDate(col) == col \in {"Visit Date", "Visit_Date"}
ContainsDateOrTime(col) == col \in {"Visit Date", "Visit_Date"}
EndsWithId(col) == col \in {"Patient_ID"}
IsAmountCol(col) == col \in {"Amount"}
IsQuantityCol(col) == FALSE
IsDurationCol(col) == FALSE
IsTimestampCol(col) == FALSE
IsMeasureText(cols) == \E i \in DOMAIN cols : cols[i] \in {"Amount"}
\* 'unknown' in dim_name.lower() or 'unk' in dim_name.lower()
NameHasUnknown(name) == name \in {"DimUnknown", "DimTrunk"}
\* 'unknown' in name.lower(): the sentinel itself
ContainsUnknown(name) == name \in {"DimUnknown"}
NameHasPatient(name) == name \in {"DimPatient"}
NameHasDoctor(name) == name \in {"DimDoctor"}
NameHasDate(name) == name \in {"DimDate"}
\* is_healthcare for dimensions: healthcare, hospital, patient or doctor in
\* context_keyword.lower(); for the fact table: healthcare, hospital, patient
\* or visit
IsHealthcare(context_keyword) == context_keyword \in {"Healthcare"}

\* tests on the upper-cased sql_type of a column ("" when the column has none)
NeedsCast(sql_type) == sql_type \notin {"", "NVARCHAR", "VARCHAR", "STRING", "TEXT", "NTEXT"}
HasINT(sql_type) == sql_type \in {"INT", "BIGINT", "SMALLINT", "TINYINT"}
HasDECIMAL(sql_type) == sql_type \in {"DECIMAL", "NUMERIC", "MONEY"}
HasDATE(sql_type) == sql_type \in {"DATE", "DATETIME", "DATETIME2", "SMALLDATETIME"}
HasTIME(sql_type) == sql_type \in {"TIME", "DATETIME", "DATETIME2", "SMALLDATETIME"}

\* a step of the data flow script: "<input> <kind>(<cols>) ~> <name>"
Step(kind, input, prefix, table, key, cols) ==
    [kind |-> kind, input |-> input, name |-> prefix \o table, table |-> table,
     key |-> key, cols |-> cols]
Entry(col, how) == [col |-> col, how |-> how]

RECURSIVE Flatten(_)
Flatten(ss) == IF ss = <<>> THEN <<>> ELSE Head(ss) \o Flatten(Tail(ss))

\* sql_type recorded for a column by Agent 2 ("" when it has none)
SqlTypeOf(column_types, col) ==
    IF CleanCol(col) \in DOMAIN column_types THEN column_types[CleanCol(col)] ELSE ""

\* primary key of a dimension, inferred when the split names none
DimPrimaryKey(dim) ==
    IF dim.primary_key # "" THEN dim.primary_key
    ELSE LET pk_candidates == SelectSeq(dim.columns, EndsWithId)
         IN IF pk_candidates # <<>> THEN pk_candidates[1] ELSE dim.columns[1]

\* a dimension the script generator skips
DimSkipped(dim) == NameHasUnknown(dim.name) \/ dim.columns = <<>>

DimCastNeeded(dim, column_types, context_keyword) ==
    \/ \E i \in DOMAIN dim.columns : NeedsCast(SqlTypeOf(column_types, dim.columns[i]))
    \/ /\ IsHealthcare(context_keyword)
       /\ \/ NameHasPatient(dim.name) /\ \E i \in DOMAIN dim.columns : ContainsAge(dim.columns[i])
          \/ /\ ~NameHasPatient(dim.name)
             /\ NameHasDoctor(dim.name)
             /\ \E i \in DOMAIN dim.columns : ContainsYearExperience(dim.columns[i])

DimDeriveNeeded(dim, context_keyword) ==
    /\ IsHealthcare(context_keyword)
    /\ ~NameHasPatient(dim.name)
    /\ ~NameHasDoctor(dim.name)
    /\ NameHasDate(dim.name)
    /\ \E i \in DOMAIN dim.columns : ContainsDate(dim.columns[i])

\* the cast entry of one column mapped from its sql_type, if any
SqlTypeCast(col, sql_type) ==
    IF HasINT(sql_type) THEN <<Entry(CleanCol(col), "integer")>>
    ELSE IF HasDECIMAL(sql_type) THEN <<Entry(CleanCol(col), "decimal")>>
    ELSE IF HasDATE(sql_type) THEN <<Entry(CleanCol(col), "date")>>
    ELSE IF HasTIME(sql_type) THEN <<Entry(CleanCol(col), "timestamp")>>
    ELSE <<>>

DimCastCols(dim, column_types, context_keyword) ==
    Flatten([i \in DOMAIN dim.columns |->
        LET col == dim.columns[i]
        IN IF /\ IsHealthcare(context_keyword)
              /\ \/ NameHasPatient(dim.name) /\ ContainsAge(col)
                 \/ ~(NameHasPatient(dim.name) /\ ContainsAge(col))
                    /\ NameHasDoctor(dim.name) /\ ContainsYearExperience(col)
           THEN <<Entry(CleanCol(col), "integer")>>
           ELSE SqlTypeCast(col, SqlTypeOf(column_types, col))])

DimDeriveCols(dim) ==
    Flatten([i \in DOMAIN dim.columns |->
        IF ContainsDateOrTime(dim.columns[i])
        THEN <<Entry(CleanCol(dim.columns[i]), "toDate")>> ELSE <<>>])

\* the sink always reading the aggregate step
final_transform_stale(has_cast, has_derive) == "Aggregate"
\* final_transform: the prefix of the last step written before the sink
final_transform(has_cast, has_derive) ==
    IF has_derive THEN "Derive" ELSE IF has_cast THEN "Cast" ELSE "Aggregate"

\* the chain of one dimension (lines 5151-5320)
DimChain(dim, column_types, context_keyword) ==
    IF DimSkipped(dim) THEN <<>>
    ELSE
    LET primary_key == DimPrimaryKey(dim)
        table_name == dim.name
        select_cols == [i \in DOMAIN dim.columns |-> Entry(CleanCol(dim.columns[i]), "")]
        agg_cols == Flatten([i \in DOMAIN dim.columns |->
                       IF dim.columns[i] = primary_key THEN <<>>
                       ELSE <<Entry(CleanCol(dim.columns[i]), "first")>>])
        cast_needed == DimCastNeeded(dim, column_types, context_keyword)
        derive_needed == DimDeriveNeeded(dim, context_keyword)
        cast_cols == DimCastCols(dim, column_types, context_keyword)
        derive_cols == DimDeriveCols(dim)
        has_cast == cast_needed /\ cast_cols # <<>>
        has_derive == derive_needed /\ ~cast_needed /\ derive_cols # <<>>
        final_prefix == final_transform(has_cast, has_derive)
    IN <<Step("select", "StagingSource", "Select", table_name, "", select_cols),
         Step("aggregate", "Select" \o table_name, "Aggregate", table_name,
              CleanCol(primary_key), agg_cols)>>
       \o (IF has_cast
           THEN <<Step("cast", "Aggregate" \o table_name, "Cast", table_name, "", cast_cols)>>
           ELSE <<>>)
       \o (IF has_derive
           THEN <<Step("derive", "Aggregate" \o table_name, "Derive", table_name, "", derive_cols)>>
           ELSE <<>>)
       \o <<Step("sink", final_prefix \o table_name, "Load", table_name, "", <<>>)>>

FactCastNeeded(fact_columns, column_types, context_keyword) ==
    \/ \E i \in DOMAIN fact_columns : NeedsCast(SqlTypeOf(column_types, fact_columns[i]))
    \/ IsHealthcare(context_keyword) /\ IsMeasureText(fact_columns)

FactCastCols(fact_columns, column_types, context_keyword) ==
    Flatten([i \in DOMAIN fact_columns |->
        LET col == fact_columns[i]
        IN IF IsHealthcare(context_keyword) /\ IsAmountCol(col)
           THEN <<Entry(CleanCol(col), "decimal")>>
           ELSE IF IsHealthcare(context_keyword) /\ (IsQuantityCol(col) \/ IsDurationCol(col))
           THEN <<Entry(CleanCol(col), "integer")>>
           ELSE IF IsHealthcare(context_keyword) /\ IsTimestampCol(col)
           THEN <<Entry(CleanCol(col), "timestamp")>>
           ELSE SqlTypeCast(col, SqlTypeOf(column_types, col))])

\* the chain of the fact table (lines 5335-5436)
FactChain(fact_columns, fact_tables, column_types, context_keyword) ==
    IF fact_columns = <<>> \/ fact_tables = <<>> THEN <<>>
    ELSE
    LET table_name == fact_tables[1]
        select_cols == [i \in DOMAIN fact_columns |-> Entry(CleanCol(fact_columns[i]), "")]
        cast_cols == FactCastCols(fact_columns, column_types, context_keyword)
        has_cast == FactCastNeeded(fact_columns, column_types, context_keyword)
                    /\ cast_cols # <<>>
    IN <<Step("select", "StagingSource", "Select", table_name, "", select_cols)>>
       \o (IF has_cast
           THEN <<Step("cast", "Select" \o table_name, "Cast", table_name, "", cast_cols)>>
           ELSE <<>>)
       \o <<Step("sink", (IF has_cast THEN "Cast" ELSE "Select") \o table_name,
                 "Load", table_name, "", <<>>)>>

\* the source step is written when csv_columns is not empty
SourceSteps(csv_columns) ==
    IF csv_columns = <<>> THEN <<>>
    ELSE <<[kind |-> "source", input |-> "", name |-> "StagingSource", table |-> "",
            key |-> "",
            cols |-> [i \in DOMAIN csv_columns |-> Entry(CleanCol(csv_columns[i]), "string")]]>>

_generate_transform_dataflow_script(gi) ==
    SourceSteps(gi.csv_columns)
    \o Flatten([i \in DOMAIN gi.dimensions |->
                  DimChain(gi.dimensions[i], gi.column_types, gi.context_keyword)])
    \o FactChain(gi.fact_columns, gi.fact_tables, gi.column_types, gi.context_keyword)

RECURSIVE Unique(_, _)
\* the elements of a sequence without repetitions, first occurrences kept
Unique(s, seen) ==
    IF s = <<>> THEN <<>>
    ELSE IF Head(s) \in seen THEN Unique(Tail(s), seen)
    ELSE <<Head(s)>> \o Unique(Tail(s), seen \cup {Head(s)})

\* re.findall(r'~\>\s*([A-Za-z_][A-Za-z0-9_]*)'): the name every step writes
StepNames(script) == [i \in DOMAIN script |-> script[i].name]

\* unique_transformations of _generate_transform_dataflow_method_code:
\* every name written after "~>" except 'StagingSource'
NotStagingSource(name) == name # "StagingSource"
unique_transformations(script) ==
    Unique(SelectSeq(StepNames(script), NotStagingSource), {})

\* the sinks the emitted create_transform_dataflow registers: one per entry of
\* dim_tables_list, and one for fact_tables_list[0]
emitted_sinks(dim_tables, fact_tables) ==
    [i \in DOMAIN dim_tables |-> "Load" \o dim_tables[i]]
    \o (IF fact_tables # <<>> THEN <<"Load" \o fact_tables[1]>> ELSE <<>>)

\* _generate_resource_names: table_name.replace('Dim', '').replace('dim_', '')
\* .replace('_', ''), lower-cased, between 'dim_' and '_dataset'
ResourceNameKey(table_name) ==
    CASE table_name = "DimPatient" -> "dim_patient_dataset"
      [] table_name = "DimDate" -> "dim_date_dataset"
      [] table_name = "Dim_Patient" -> "dim_patient_dataset"
      [] table_name = "DIM_PATIENT" -> "dim_dimpatient_dataset"
      [] OTHER -> "dim_" \o table_name \o "_dataset"
\* the emitted create_transform_dataflow: "dim_" + table_name.lower()
\* .replace('dim', '').replace('_', '') + "_dataset"
SinkDatasetKey(table_name) ==
    CASE table_name = "DimPatient" -> "dim_patient_dataset"
      [] table_name = "DimDate" -> "dim_date_dataset"
      [] table_name = "Dim_Patient" -> "dim_patient_dataset"
      [] table_name = "DIM_PATIENT" -> "dim_patient_dataset"
      [] OTHER -> "dim_" \o table_name \o "_dataset"

\* names[key] = value on the dict kept as the sequence of its entries
SetName(names, entry) ==
    IF \E i \in DOMAIN names : names[i].name = entry.name
    THEN [i \in DOMAIN names |->
            IF names[i].name = entry.name THEN entry ELSE names[i]]
    ELSE Append(names, entry)
RECURSIVE SetNames(_, _)
SetNames(names, entries) ==
    IF entries = <<>> THEN names
    ELSE SetNames(SetName(names, Head(entries)), Tail(entries))

\* the dataset entries of the names dict of _generate_resource_names
_generate_resource_names(fact_tables, dim_tables) ==
    SetNames(<<[name |-> "fact_table_dataset",
                dataset |-> IF fact_tables # <<>> THEN fact_tables[1] \o "Dataset"
                            ELSE "FactTableDataset"]>>,
             [i \in DOMAIN dim_tables |->
                [name |-> ResourceNameKey(dim_tables[i]),
                 dataset |-> dim_tables[i] \o "Dataset"]])

\* self.names[key]; "KeyError" when the dict has no such key
NameOf(names, key) ==
    IF \E i \in DOMAIN names : names[i].name = key
    THEN names[CHOOSE i \in DOMAIN names : names[i].name = key].dataset
    ELSE "KeyError"

\* the dataset reference the emitted create_transform_dataflow looks up for
\* every sink, in the order of emitted_sinks
sink_datasets(names, dim_tables, fact_tables) ==
    [i \in DOMAIN dim_tables |-> NameOf(names, SinkDatasetKey(dim_tables[i]))]
    \o (IF fact_tables # <<>> THEN <<NameOf(names, "fact_table_dataset")>>
        ELSE <<>>)
emitted_sink_datasets(dim_tables, fact_tables) ==
    sink_datasets(_generate_resource_names(fact_tables, dim_tables),
                  dim_tables, fact_tables)

\* running the emitted create_transform_dataflow: it raises KeyError at the
\* first sink whose dataset key is not in self.names, else it creates the
\* data flow with the sinks bound to the datasets looked up
NotRun == [status |-> "not_run", datasets |-> <<>>]
create_transform_dataflow(names, dim_tables, fact_tables) ==
    LET datasets == sink_datasets(names, dim_tables, fact_tables)
    IN IF \E i \in DOMAIN datasets : datasets[i] = "KeyError"
       THEN [status |-> "KeyError", datasets |-> <<>>]
       ELSE [status |-> "created", datasets |-> datasets]

\* the validator-relevant fragments of the code _generate_complete_sdk_code
\* emits: its template defines "def deploy_complete_solution(self):", embeds
\* the script (one cast fragment per cast step, all of canonical types) and the
\* transformations list, and writes the "\n" of line 5029 as a line break
\* inside a string literal, which does not compile
complete_sdk_code(gi) ==
    LET script == _generate_transform_dataflow_script(gi)
        IsCast(step) == step.kind = "cast"
        IsEmptyDerive(step) == step.kind = "derive" /\ step.cols = <<>>
        IsLoad(name) == \E i \in DOMAIN script :
                            script[i].kind = "sink" /\ script[i].name = name
    IN <<"DeployNone">>
       \o [i \in DOMAIN SelectSeq(script, IsCast) |-> "CastInteger"]
       \o [i \in DOMAIN SelectSeq(script, IsEmptyDerive) |-> "EmptyDerive"]
       \o (IF SelectSeq(unique_transformations(script), IsLoad) # <<>>
           THEN <<"LoadTrans">> ELSE <<>>)
       \o <<"SyntaxErr">>

\* ------------------------------------------------ inputs of the generator
DimNames == {"DimPatient", "DimDate", "DimUnknown", "DimTrunk"}
DimInfos(name) ==
    CASE name = "DimPatient" ->
            {[columns |-> <<"Patient_ID", "Age">>, primary_key |-> "Patient_ID"],
             [columns |-> <<"Patient_ID", "Age">>, primary_key |-> ""],
             [columns |-> <<>>, primary_key |-> ""]}
      [] name = "DimDate" ->
            {[columns |-> <<"Visit Date", "Visit_Date">>, primary_key |-> "Visit Date"],
             [columns |-> <<"Visit_Date">>, primary_key |-> "Visit_Date"]}
      [] name = "DimUnknown" ->
            {[columns |-> <<"Amount">>, primary_key |-> "Amount"]}
      [] name = "DimTrunk" ->
            {[columns |-> <<"Patient_ID">>, primary_key |-> "Patient_ID"]}
DimSpecs ==
    UNION {{[name |-> n, columns |-> info.columns, primary_key |-> info.primary_key] :
              info \in DimInfos(n)} : n \in DimNames}
\* a dict of dimensions: its keys are distinct
DistinctNames(dims) ==
    \A i, j \in DOMAIN dims : i # j => dims[i].name # dims[j].name
DimensionDicts == {d \in SeqsUpTo(DimSpecs, MaxDims) : DistinctNames(d)}

CleanColumns == {"Patient_ID", "Age", "Visit_Date", "Amount"}
ColumnTypeMaps ==
    {[c \in CleanColumns |-> ""],
     [c \in CleanColumns |-> CASE c = "Age" -> "INT"
                              [] c = "Amount" -> "DECIMAL"
                              [] OTHER -> ""],
     [c \in CleanColumns |-> CASE c = "Visit_Date" -> "DATETIME"
                              [] c = "Patient_ID" -> "BIGINT"
                              [] OTHER -> "NVARCHAR"],
     [c \in CleanColumns |-> CASE c = "Age" -> "SMALLINT"
                              [] c = "Amount" -> "FLOAT"
                              [] c = "Visit_Date" -> "DATE"
                              [] c = "Patient_ID" -> "BIT"]}

GenInputs ==
    [context_keyword : {"Healthcare", "Data"},
     csv_columns : {<<>>, <<"Patient_ID", "Age", "Visit Date", "Amount">>},
     dimensions : DimensionDicts,
     fact_columns : {<<>>, <<"Patient_ID", "Amount">>},
     fact_tables : {<<>>, <<"FactVisit">>},
     dim_tables : {<<>>, <<"DimPatient">>, <<"DimPatient", "DimDate">>,
                   <<"DimPatient", "Dim_Patient">>, <<"DIM_PATIENT">>},
     column_types : ColumnTypeMaps]

NoGenInput ==
    [context_keyword |-> "Data", csv_columns |-> <<>>, dimensions |-> <<>>,
     fact_columns |-> <<>>, fact_tables |-> <<>>, dim_tables |-> <<>>,
     column_types |-> [c \in CleanColumns |-> ""]]

\* the inputs the fallback branch of generate_python_sdk_code hands to the
\* generator in the model of the loop
LoopGenInputs ==
    {gi \in GenInputs :
        /\ gi.context_keyword = "Healthcare"
        /\ gi.csv_columns # <<>>
        /\ gi.dimensions \in {<<>>, <<[name |-> "DimPatient",
                                       columns |-> <<"Patient_ID", "Age">>,
                                       primary_key |-> "Patient_ID"]>>}
        /\ gi.fact_tables # <<>>
        /\ gi.dim_tables = <<"DimPatient">>
        /\ gi.column_types = [c \in CleanColumns |-> ""]}

\* Agent 3A gave no decision: the deterministic generator writes the code,
\* which is returned without validation (lines 4370-4440)
Fallback ==
    /\ pc = "fallback"
    /\ \E gi \in LoopGenInputs :
         /\ code' = complete_sdk_code(gi)
         /\ result' = Returned(code',
                               MkVerdict("dict", "false", "list", <<IssueSkipped>>, TRUE,
                                         <<"Code generated using fallback method. Validation was not performed.">>),
                               0, FALSE, NoDecision)
    /\ pc' = "done"
    /\ UNCHANGED <<client, missing_input, agent3a_decision, attempt,
                   validation_feedback, validation_result, planner_calls,
                   generator_calls, generated, validator_calls, verdicts,
                   service_error>>
    /\ UNCHANGED <<val_vars, gen_vars, split_vars, type_vars, stream_vars, deploy_vars, ui_vars>>

\* ------------------------------------------------- Agent 1: the schema split
\* A DataFrame is the sequence of its columns, each with the dtype class
\* select_dtypes sorts it into: "number", "object" or "other".
ColumnNames == {"Patient_ID", "Patient_Name", "Visit_Date", "Amount",
                "Order_ID", "Order_Status"}
\* the dtype classes a column of that name is read with
DtypesOf(name) ==
    CASE name \in {"Patient_ID", "Order_ID"} -> {"number", "object"}
      [] name = "Visit_Date" -> {"object", "other"}
      [] name = "Amount" -> {"number"}
      [] OTHER -> {"object"}
DfColumns == UNION {{[name |-> n, dtype |-> t] : t \in DtypesOf(n)} : n \in ColumnNames}
\* column labels of a DataFrame are distinct
DistinctColumns(df) == \A i, j \in DOMAIN df : i # j => df[i].name # df[j].name
DataFrames == {df \in SeqsUpTo(DfColumns, MaxCols) : DistinctColumns(df)}

\* seq[:n]
Take(seq, n) == SubSeq(seq, 1, IF Len(seq) < n THEN Len(seq) ELSE n)
Elems(seq) == {seq[i] : i \in DOMAIN seq}

\* 'id' in col.lower() and col.lower().endswith('_id')
IsIdColumn(col) == col \in {"Patient_ID", "Order_ID"}

\* the keys of dimension_keywords, in the order of the dict literal
dimension_keywords ==
    <<"DimPatient", "DimDoctor", "DimHospital", "DimDate", "DimMedication",
      "DimLocation", "DimDepartment">>
\* any(k in col.lower() for k in keywords) for the keywords of dim_name
KeywordMatch(dim_name, col) ==
    CASE dim_name = "DimPatient" -> col \in {"Patient_ID", "Patient_Name"}
      [] dim_name = "DimDate" -> col \in {"Visit_Date"}
      [] OTHER -> FALSE
\* id_col.replace('_ID', '').lower() in col.lower()
ContainsStem(id_col, col) ==
    CASE id_col = "Patient_ID" -> col \in {"Patient_ID", "Patient_Name"}
      [] id_col = "Order_ID" -> col \in {"Order_ID", "Order_Status"}
      [] OTHER -> FALSE
\* f"Dim{id_col.replace('_ID', '').replace('_', '').title()}"
IdDimName(id_col) ==
    CASE id_col = "Patient_ID" -> "DimPatient"
      [] id_col = "Order_ID" -> "DimOrder"
      [] OTHER -> "Dim" \o id_col

\* an entry of a dimensions dict, or an item of a dimensions list
DimItem(kind, name, columns, primary_key) ==
    [kind |-> kind, name |-> name, columns |-> columns, primary_key |-> primary_key]
\* an entry of foreign_keys
ForeignKey(column, dim_name) == [name |-> column, dimension |-> dim_name]

\* d[key] = value on a dict kept as the sequence of its entries
Put(entries, entry) ==
    IF \E i \in DOMAIN entries : entries[i].name = entry.name
    THEN [i \in DOMAIN entries |->
            IF entries[i].name = entry.name THEN entry ELSE entries[i]]
    ELSE Append(entries, entry)
RECURSIVE PutAll(_, _)
PutAll(entries, new) ==
    IF new = <<>> THEN entries ELSE PutAll(Put(entries, Head(new)), Tail(new))

\* the value of a 'dimensions' key: a dict ("dict"), a list ("list"), another
\* JSON value that is false in a test (null, 0, '', false, or no key:
\* "other"), or another JSON value that is true in a test (a non-empty string,
\* a number but 0, true: "truthy")
Dimensions(form, items) == [form |-> form, items |-> items]

\* the schema split a call returns
Split(fact_columns, dimensions, foreign_keys, path) ==
    [fact_columns |-> fact_columns, dimensions |-> dimensions,
     foreign_keys |-> foreign_keys, path |-> path]
NoSplit == Split(<<>>, Dimensions("dict", <<>>), <<>>, "none")

\* the dimensions found by the keyword table (first loop)
KeywordDimensions(text_columns, id_columns) ==
    Flatten([d \in DOMAIN dimension_keywords |->
        LET dim_name == dimension_keywords[d]
            Matches(col) == KeywordMatch(dim_name, col)
            matching_cols == SelectSeq(text_columns, Matches)
            pk_candidates == SelectSeq(id_columns, Matches)
            primary_key == IF pk_candidates # <<>> THEN pk_candidates[1]
                           ELSE matching_cols[1]
        IN IF matching_cols # <<>>
           THEN <<DimItem("entry", dim_name, matching_cols, primary_key)>>
           ELSE <<>>])

\* the dimensions made from the first five id columns (second loop)
IdDimensions(text_columns, id_columns) ==
    PutAll(<<>>, Flatten([i \in DOMAIN Take(id_columns, 5) |->
        LET id_col == id_columns[i]
            Related(col) == ContainsStem(id_col, col)
            related_cols == SelectSeq(text_columns, Related)
        IN IF related_cols # <<>>
           THEN <<DimItem("entry", IdDimName(id_col),
                          <<id_col>> \o Take(related_cols, 10), id_col)>>
           ELSE <<>>]))

_create_fallback_analysis(df) ==
    LET columns == [i \in DOMAIN df |-> df[i].name]
        IsId(c) == IsIdColumn(c.name)
        IsNumeric(c) == c.dtype = "number" /\ ~IsIdColumn(c.name)
        IsText(c) == c.dtype = "object"
        NamesOf(cs) == [i \in DOMAIN cs |-> cs[i].name]
        id_columns == NamesOf(SelectSeq(df, IsId))
        numeric_columns == NamesOf(SelectSeq(df, IsNumeric))
        text_columns == NamesOf(SelectSeq(df, IsText))
        keyword_dims == KeywordDimensions(text_columns, id_columns)
        dimensions == IF keyword_dims = <<>> /\ id_columns # <<>>
                      THEN IdDimensions(text_columns, id_columns)
                      ELSE keyword_dims
        foreign_keys ==
            PutAll(<<>>, Flatten([i \in DOMAIN dimensions |->
                IF dimensions[i].primary_key \in Elems(columns)
                THEN <<ForeignKey(dimensions[i].primary_key, dimensions[i].name)>>
                ELSE <<>>]))
        Remaining(col) ==
            /\ col \notin Elems(numeric_columns)
            /\ ~\E i \in DOMAIN dimensions : col \in Elems(dimensions[i].columns)
        fact_columns == numeric_columns \o SelectSeq(columns, Remaining)
        fact_or_numeric == IF fact_columns = <<>> THEN Take(numeric_columns, 20)
                           ELSE fact_columns
        first_id == id_columns[1]
        last_resort == dimensions = <<>> /\ id_columns # <<>>
        final_dimensions ==
            IF last_resort
            THEN <<DimItem("entry", IdDimName(first_id),
                           <<first_id>> \o Take(text_columns, 10), first_id)>>
            ELSE dimensions
        final_foreign_keys ==
            IF last_resort
            THEN Put(foreign_keys, ForeignKey(first_id, IdDimName(first_id)))
            ELSE foreign_keys
    IN Split(IF fact_or_numeric # <<>> THEN Take(fact_or_numeric, 50)
             ELSE Take(columns, 10),
             Dimensions("dict", final_dimensions), final_foreign_keys, "fallback")

\* replies of the text generation to the Agent 1 prompt: no JSON object in the
\* text, a failed call, or a JSON object
LlmDimensions ==
    {Dimensions("other", <<>>),
     Dimensions("truthy", <<>>),
     Dimensions("dict", <<>>),
     Dimensions("dict", <<DimItem("entry", "DimPatient", <<"Patient_ID", "Patient_Name">>, "Patient_ID")>>),
     Dimensions("dict", <<DimItem("entry", "Patient", <<"Patient_Name">>, "Patient_ID"),
                          DimItem("entry", "DimPatient", <<"Patient_ID">>, "")>>),
     Dimensions("dict", <<DimItem("entry", "DimDate", <<"Visit_Date">>, ""),
                          DimItem("entry", "Unknown", <<"Amount">>, "Amount")>>),
     Dimensions("dict", <<DimItem("entry_no_info", "DimOrder", <<>>, "")>>),
     Dimensions("list", <<DimItem("str", "Patient", <<>>, ""),
                          DimItem("named", "DimDate", <<"Visit_Date">>, "")>>),
     Dimensions("list", <<DimItem("unnamed", "", <<"Amount">>, "Amount")>>),
     Dimensions("list", <<DimItem("single_key", "Order", <<"Order_ID", "Order_Status">>, "Order_Status"),
                          DimItem("str", "DimUnknown", <<>>, "")>>)}
SplitReplies ==
    {[tag |-> t, data |-> NoSplit] : t \in {"no_json", "api_error"}}
    \cup {[tag |-> "json", data |-> Split(f, d, <<>>, "llm")] :
            f \in {<<>>, <<"Amount">>}, d \in LlmDimensions}
NoSplitReply == [tag |-> "none", data |-> NoSplit]

\* a value is true in a test: a dict or a list with an item, or a "truthy" value
IsTruthy(dimensions) == dimensions.items # <<>> \/ dimensions.form = "truthy"
\* data.get('fact_columns') or data.get('dimensions')
HasSplitContent(data) == data.fact_columns # <<>> \/ IsTruthy(data.dimensions)

analyze_csv_structure_v2(cl, df, reply) ==
    IF ~cl THEN _create_fallback_analysis(df)
    ELSE IF reply.tag = "json" /\ HasSplitContent(reply.data) THEN reply.data
    ELSE _create_fallback_analysis(df)

\* name.lower().startswith('dim')
StartsWithDim(name) == name \in {"DimPatient", "DimDate", "DimOrder", "DimUnknown"}
WithDimPrefix(name) == IF StartsWithDim(name) THEN name ELSE "Dim" \o name

\* the normalized entry of one dict entry or list item
NormalizedItem(item) ==
    LET name == IF item.kind = "unnamed" THEN "Unknown" ELSE item.name
        cols == IF item.kind \in {"entry_no_info", "str"} THEN <<>> ELSE item.columns
        pk == IF item.kind \in {"entry_no_info", "str"} THEN ""
              ELSE IF item.primary_key = "" /\ cols # <<>> THEN cols[1]
              ELSE item.primary_key
    IN DimItem("entry", WithDimPrefix(name), cols, pk)

_normalize_dimensions(dimensions) ==
    IF dimensions.form \in {"dict", "list"}
    THEN PutAll(<<>>, [i \in DOMAIN dimensions.items |-> NormalizedItem(dimensions.items[i])])
    ELSE <<>>

\* ------------------------------------------------ Agent 2: the type fallback
\* An integer of a column is kept as its sign and the offset of its magnitude
\* from INT_MAX: the value is (INT_MAX + off), negated when neg.  Magnitudes
\* above INT_MAX are thus written without leaving the range of the checker's
\* integers.
Num(neg, off) == [neg |-> neg, off |-> off]
Offsets == {-INT_MAX, -1, 0, 1, 2}
Nums == {Num(FALSE, off) : off \in Offsets}
        \cup {Num(TRUE, off) : off \in Offsets \ {-INT_MAX}}
\* a <= b
NumLeq(a, b) ==
    IF a.neg /\ ~b.neg THEN TRUE
    ELSE IF ~a.neg /\ b.neg THEN FALSE
    ELSE IF a.neg THEN b.off <= a.off
    ELSE a.off <= b.off
\* abs(float(v)) > 2147483647
AbsAboveIntMax(v) == v.off > 0

\* a column of the DataFrame: str(df[col].dtype), whether it has a value that
\* is not null, its minimum and maximum (integer columns) and the length of
\* its longest value (other columns)
TypeColumn(dtype, has_values, min_val, max_val, max_length) ==
    [dtype |-> dtype, has_values |-> has_values, min_val |-> min_val,
     max_val |-> max_val, max_length |-> max_length]
NoNum == Num(FALSE, -INT_MAX)
TypeColumns ==
    {TypeColumn("int64", TRUE, lo, hi, 0) : lo \in Nums, hi \in Nums}
    \cup {TypeColumn("int64", FALSE, NoNum, NoNum, 0)}
    \cup {TypeColumn(d, TRUE, NoNum, NoNum, 0) : d \in {"float64", "datetime64[ns]", "bool"}}
    \cup {TypeColumn("object", TRUE, NoNum, NoNum, n) : n \in {10, 255, 256, 3000, 4001}}
    \cup {TypeColumn("object", FALSE, NoNum, NoNum, 0)}
\* the minimum of a column is not above its maximum
WellFormedColumn(c) == NumLeq(c.min_val, c.max_val)
TypeDataFrames ==
    {df \in SeqsUpTo({c \in TypeColumns : WellFormedColumn(c)}, MaxTypeCols) :
        df # <<>>}

ColumnType(sql_type, adf_type) == [sql_type |-> sql_type, adf_type |-> adf_type]

\* the type of an integer column ('int' in dtype)
IntColumnType(c) ==
    IF c.has_values /\ (AbsAboveIntMax(c.max_val) \/ AbsAboveIntMax(c.min_val))
    THEN ColumnType("BIGINT", "long")
    ELSE ColumnType("INT", "integer")

\* f"NVARCHAR({n})" for the sizes the modelled lengths give
NVarchar(n) ==
    CASE n = 50 -> "NVARCHAR(50)"
      [] n = 510 -> "NVARCHAR(510)"
      [] n = 512 -> "NVARCHAR(512)"
      [] n = 4000 -> "NVARCHAR(4000)"
Min(a, b) == IF a < b THEN a ELSE b
Max(a, b) == IF a > b THEN a ELSE b

\* the type of a column that is neither integer, float, datetime nor bool
StringColumnType(c) ==
    IF ~c.has_values THEN ColumnType("NVARCHAR(255)", "string")
    ELSE IF c.max_length > 4000 THEN ColumnType("NVARCHAR(MAX)", "string")
    ELSE IF c.max_length > 255
         THEN ColumnType(NVarchar(Min(c.max_length * 2, 4000)), "string")
    ELSE ColumnType(NVarchar(Max(c.max_length * 2, 50)), "string")

\* the entry of one column of the result
FallbackColumnType(c) ==
    CASE c.dtype = "int64" -> IntColumnType(c)
      [] c.dtype = "float64" -> ColumnType("DECIMAL(18,2)", "decimal(18,2)")
      [] c.dtype = "datetime64[ns]" -> ColumnType("DATETIME", "timestamp")
      [] c.dtype = "bool" -> ColumnType("BIT", "boolean")
      [] OTHER -> StringColumnType(c)

_create_fallback_datatypes(df) == [i \in DOMAIN df |-> FallbackColumnType(df[i])]

\* --------------------------------------------- the streamed chat completion
\* A text is the sequence of its characters.
\* a chunk of the stream: whether chunk.choices is non-empty, whether its
\* delta has content, and the content
Chunk(choices, has_content, content) ==
    [choices |-> choices, has_content |-> has_content, content |-> content]
Chunks ==
    {Chunk(TRUE, TRUE, <<"{">>), Chunk(TRUE, TRUE, <<"x", "}">>),
     Chunk(TRUE, FALSE, <<>>), Chunk(FALSE, FALSE, <<>>)}
Streams == SeqsUpTo(Chunks, MaxChunks)
\* st_fail_at: 0 when the request with stream = True raises; k >= 1 when
\* reading the stream raises in place of its k-th chunk (k = Len + 1: in place
\* of its end)
NoFailure == -1
\* the request with stream = False: its message content, or it raises
NonStreamed(ok, content) == [ok |-> ok, content |-> content]
NonStreamedOutcomes ==
    {NonStreamed(TRUE, <<"{", "x", "}">>), NonStreamed(TRUE, <<"n">>),
     NonStreamed(FALSE, <<>>)}

\* the text written to stream_container, its code fence and its cursor
Shown(format, text, cursor) == [format |-> format, text |-> text, cursor |-> cursor]
NothingShown == Shown("none", <<>>, FALSE)
\* full_response.strip().startswith('{') or ...startswith('[')
StartsJson(text) == text # <<>> /\ text[1] \in {"{", "["}
\* '```' in full_response or 'def ' in full_response or 'import ' in full_response
LooksLikeCode(text) == FALSE
FormatOf(text) ==
    IF StartsJson(text) THEN "json" ELSE IF LooksLikeCode(text) THEN "python" ELSE "plain"

NoStreamResult == [kind |-> "none", text |-> <<>>]
StreamReturned(text) == [kind |-> "returned", text |-> text]
StreamRaised(error) == [kind |-> "raised", text |-> <<error>>]

\* full_response after one more chunk
AddChunk(full_response, chunk) ==
    IF chunk.choices /\ chunk.has_content THEN full_response \o chunk.content
    ELSE full_response

\* the text handed back when the request with stream = False is answered, having
\* collected the partial full_response
fallback_response_partial(full_response, response) == full_response
fallback_response(full_response, response) == response.content

\* ------------------------------------------------- deployment and pipeline run
\* parameters of the generated deploy_complete_solution besides self: none,
\* sql_config and blob_config, or both with default values
Signatures == {"self_only", "required", "optional"}
\* len(params) > 1
HasAdditionalParameters(signature) == signature \in {"required", "optional"}
\* the deployment target: it accepts every deployment, fails every one, or
\* fails the first and accepts the next
Targets == {"ok", "fails", "fails_once"}
\* outcome of the n-th execution of the body of deploy_complete_solution
TargetAccepts(target, n) == target = "ok" \/ (target = "fails_once" /\ n > 1)

DeployResult(ok, message) == [ok |-> ok, message |-> message]
NoDeployResult == DeployResult("none", "")

PipelineNames == {"", "SQLLinkedService", "HealthcareDataflow", "HealthcarePipeline"}
\* 'Pipeline' in pipeline_name
ContainsPipeline(name) == name \in {"HealthcarePipeline"}
\* create_run: it starts a run, or raises with or without "not found"
RunServices == {"ok", "not_found", "error"}
RunResult(run_id, message) == [run_id |-> run_id, message |-> message]
NoRunResult == RunResult("none", "")

\* run_pipeline up to the call of create_run: the pair returned without a
\* call, if any
RunRejection(name, has_client) ==
    IF name = "" THEN RunResult("None", "Pipeline name is empty or None")
    ELSE IF ~ContainsPipeline(name) THEN RunResult("None", "Invalid pipeline name format")
    ELSE IF name \in {"SQLLinkedService", "BlobStorageLinkedService"}
         THEN RunResult("None", "Pipeline name cannot be a linked service name")
    ELSE IF ~has_client THEN RunResult("None", "Failed to create ADF client")
    ELSE NoRunResult

\* the pair returned after create_run
RunOutcome(service) ==
    CASE service = "ok" -> RunResult("run_id", "Pipeline started successfully")
      [] service = "not_found" -> RunResult("None", "Failed to start pipeline: not found")
      [] OTHER -> RunResult("None", "Failed to start pipeline")

\* ---------------------------------------------------------- the UI session
\* the key generated_code is not in the session; its value is None
AbsentCode == 0
NoneCode == -1
IsCode(c) == c >= 1
\* 'generated_code' in st.session_state: tab 3 shows its buttons
Tab3Shown(generated_code) == generated_code # AbsentCode
\* deployment_ready of line 816: the button 'Start Pipeline' is enabled
deployment_ready(deployment_success) == deployment_success = "true"
\* outcomes of generate_python_sdk_code seen by the handler of generate_code_btn
GenerationOutcomes == {"code", "no_code", "raises"}
\* how a code contains 'AzureMLExecutePipelineActivity': not at all ("none"),
\* never followed by an opening parenthesis ("word"), or at least once
\* followed by one ("call": the pattern of line 888 of azure_helpers.py matches)
AzureMlKinds == {"none", "word", "call"}
\* "AzureMLExecutePipelineActivity" in generated_code (line 547)
HasAzureMl(azure_ml) == azure_ml # "none"
\* the text deploy_generated_code executes (lines 546-552 and 577 of
\* azure_helpers.py): the code itself, or, when the code contains
\* 'AzureMLExecutePipelineActivity', a local copy of it in which every
\* occurrence is replaced by 'ExecuteDataFlowActivity'; the copy is not
\* written to the session
Text(c, rewritten) == [code |-> c, rewritten |-> rewritten]
NoText == Text(AbsentCode, FALSE)
fixed_code(generated_code, azure_ml) == Text(generated_code, HasAzureMl(azure_ml))
\* the attribute 'names' of the object constructed, as line 865 reads it at
\* this deployment (the executed text decides it anew at every read): no such
\* attribute ("no_names"), a dict whose key 'pipeline' holds a non-empty name
\* ("pipeline"), a dict whose key 'pipeline' holds an empty name or None
\* ("empty_pipeline"), or a value that is no dict or has no key 'pipeline'
\* ("no_pipeline")
NamesKinds == {"no_names", "pipeline", "empty_pipeline", "no_pipeline"}
\* outcomes of deploy_generated_code as the handler of deploy_btn sees them:
\*   "deployed"         it returns True (line 868)
\*   "failed"           it returns False, line 864 not reached
\*   "auto_fixed"       it returns False after writing an auto-fixed code into
\*                      the session (lines 882-898), line 864 not reached
\*   "failed_late"      the read of 'names' at line 865 raises an Exception
\*                      other than AttributeError, after line 864 has written
\*                      the instance: it returns False
\*   "auto_fixed_late"  the same read raises the TypeError of lines 872-898
\*   "exits"            the executed text raises an exception that is no
\*                      Exception (SystemExit, KeyboardInterrupt) before line
\*                      864: no except clause catches it, the handler assigns
\*                      nothing
\*   "exits_late"       the read of 'names' raises such an exception, after
\*                      line 864 has written the instance
\* The code None fails at line 547.  The auto-fix needs a code that matches
\* AzureMLExecutePipelineActivity\s*\( (line 888).
DeploymentOutcomes(generated_code, generations, azure_ml) ==
    IF ~IsCode(generated_code) THEN {"failed"}
    ELSE {"deployed", "failed", "failed_late", "exits", "exits_late"}
         \cup (IF azure_ml = "call" /\ generations < MaxGenerations
               THEN {"auto_fixed", "auto_fixed_late"} ELSE {})
\* the outcome writes an auto-fixed code into the session
AutoFixed(outcome) == outcome \in {"auto_fixed", "auto_fixed_late"}
\* line 864 is reached: the instance is written into the session
InstanceWritten(outcome) ==
    outcome \in {"deployed", "failed_late", "auto_fixed_late", "exits_late"}
\* deploy_generated_code returns: the handler assigns deployment_success
Returns(outcome) == outcome \notin {"exits", "exits_late"}
\* how the auto-fixed code contains the word: the substitution
\* leaves no occurrence followed by an opening parenthesis (line 894)
AutoFixedKinds == {"none", "word"}
\* session_state.pipeline_names after a successful deployment (lines 865-866
\* of azure_helpers.py)
pipeline_names_after_deploy(pipeline_names, names) ==
    IF names = "no_names" THEN pipeline_names ELSE names
\* the handler of start_pipeline_btn reaches its run_pipeline call: the name
\* comes from session_state.pipeline_names (lines 829-832), else from
\* get_pipeline_name_from_code, which returns pipeline_names['pipeline'] when
\* the key is there (lines 924-927 of azure_helpers.py) and whose re.search
\* otherwise raises TypeError on the code None (the handler's except clause of
\* lines 856-857 then ends the click), else it is "Pipeline"
ReachesRunPipeline(generated_code, pipeline_names) ==
    pipeline_names \in {"pipeline", "empty_pipeline"} \/ IsCode(generated_code)
\* a run_pipeline call: the code held by the session and the text deployed
Run(held, deployed) == [held |-> held, deployed |-> deployed]

\* session_state.deployment_success after the handler of generate_code_btn
deployment_success_after_generation(deployment_success) == deployment_success

\* ------------------------------------------------------------ specifications
LoopIdle ==
    /\ pc = "idle"
    /\ missing_input = "nothing"
    /\ agent3a_decision = NoDecision
    /\ attempt = 0
    /\ validation_feedback = NoFeedback
    /\ code = <<>>
    /\ validation_result = NoVerdict
    /\ result = NoResult
    /\ planner_calls = <<>>
    /\ generator_calls = <<>>
    /\ generated = <<>>
    /\ validator_calls = <<>>
    /\ verdicts = <<>>
    /\ service_error = FALSE
ValIdle ==
    /\ v_pc = "idle"
    /\ v_client = TRUE
    /\ v_code = <<>>
    /\ v_reply = NoReply
    /\ v_verdict = NoVerdict
GenIdle ==
    /\ g_pc = "idle"
    /\ g_input = NoGenInput
    /\ g_script = <<>>
    /\ g_transformations = <<>>
    /\ g_sinks = <<>>
    /\ g_names = <<>>
    /\ g_code = <<>>
    /\ g_run = NotRun

SplitIdle ==
    /\ s_pc = "idle"
    /\ s_client = TRUE
    /\ s_df = <<>>
    /\ s_reply = NoSplitReply
    /\ s_split = NoSplit
    /\ s_normalized = <<>>

TypeIdle ==
    /\ t_pc = "idle"
    /\ t_df = <<>>
    /\ t_columns = <<>>

StreamIdle ==
    /\ st_pc = "idle"
    /\ st_chunks = <<>>
    /\ st_fail_at = NoFailure
    /\ st_nonstreamed = NonStreamed(FALSE, <<>>)
    /\ st_container = FALSE
    /\ st_pos = 0
    /\ st_full_response = <<>>
    /\ st_shown = NothingShown
    /\ st_result = NoStreamResult

DeployIdle ==
    /\ d_pc = "idle"
    /\ d_setup = "ok"
    /\ d_signature = "self_only"
    /\ d_config = TRUE
    /\ d_target = "ok"
    /\ d_calls = 0
    /\ d_runs = 0
    /\ d_deployed = FALSE
    /\ d_result = NoDeployResult
    /\ r_pc = "idle"
    /\ r_name = ""
    /\ r_client = FALSE
    /\ r_service = "ok"
    /\ r_calls = 0
    /\ r_result = NoRunResult

UiIdle ==
    /\ ui_generated_code = AbsentCode
    /\ ui_deployment_success = "absent"
    /\ ui_pipeline_instance = NoText
    /\ ui_pipeline_started = FALSE
    /\ ui_generations = 0
    /\ ui_code_azure_ml = <<>>
    /\ ui_pipeline_names = "absent"
    /\ ui_runs = <<>>

\* generate_python_sdk_code on an agent constructed with or without a client
Init ==
    /\ client \in BOOLEAN
    /\ LoopIdle
    /\ ValIdle
    /\ GenIdle
    /\ SplitIdle
    /\ TypeIdle
    /\ StreamIdle
    /\ DeployIdle
    /\ UiIdle

Next ==
    \/ Call
    \/ Plan
    \/ Generate
    \/ Validate
    \/ ReturnPassed
    \/ VerdictRaises
    \/ Regenerate
    \/ ReturnFailed
    \/ Fallback

Spec == Init /\ [][Next]_vars

\* a direct call validate_generated_code(generated_code, ...)
ValInit ==
    /\ client = TRUE
    /\ LoopIdle
    /\ GenIdle
    /\ SplitIdle
    /\ TypeIdle
    /\ StreamIdle
    /\ DeployIdle
    /\ UiIdle
    /\ v_pc = "called"
    /\ v_client \in BOOLEAN
    /\ v_code \in Codes
    /\ v_reply = NoReply
    /\ v_verdict = NoVerdict

ValidateCall ==
    /\ v_pc = "called"
    /\ \E reply \in (IF AsksTextGeneration(v_client, v_code)
                     THEN ValidatorReplies ELSE {NoReply}) :
         /\ v_reply' = reply
         /\ v_verdict' = validate_generated_code(v_client, v_code, reply)
    /\ v_pc' = "returned"
    /\ UNCHANGED <<v_client, v_code>>
    /\ UNCHANGED <<loop_vars, gen_vars, split_vars, type_vars, stream_vars, deploy_vars, ui_vars>>

ValNext == ValidateCall

SpecValidate == ValInit /\ [][ValNext]_vars

\* the same call on an agent constructed with a text-generation client
ValInitWithClient == ValInit /\ v_client = TRUE

SpecValidateWithClient == ValInitWithClient /\ [][ValNext]_vars

\* a call of _generate_complete_sdk_code
GenInit ==
    /\ client = TRUE
    /\ LoopIdle
    /\ ValIdle
    /\ SplitIdle
    /\ TypeIdle
    /\ StreamIdle
    /\ DeployIdle
    /\ UiIdle
    /\ g_pc = "called"
    /\ g_input \in GenInputs
    /\ g_script = <<>>
    /\ g_transformations = <<>>
    /\ g_sinks = <<>>
    /\ g_names = <<>>
    /\ g_code = <<>>
    /\ g_run = NotRun

\* transform_script = self._generate_transform_dataflow_script(...)
GenerateScript ==
    /\ g_pc = "called"
    /\ g_names' = _generate_resource_names(g_input.fact_tables, g_input.dim_tables)
    /\ g_script' = _generate_transform_dataflow_script(g_input)
    /\ g_pc' = "script"
    /\ UNCHANGED <<g_input, g_transformations, g_sinks, g_code, g_run>>
    /\ UNCHANGED <<loop_vars, val_vars, split_vars, type_vars, stream_vars, deploy_vars, ui_vars>>

\* transform_dataflow_code = self._generate_transform_dataflow_method_code(...)
GenerateMethodCode ==
    /\ g_pc = "script"
    /\ g_transformations' = unique_transformations(g_script)
    /\ g_sinks' = emitted_sinks(g_input.dim_tables, g_input.fact_tables)
    /\ g_code' = complete_sdk_code(g_input)
    /\ g_pc' = "returned"
    /\ UNCHANGED <<g_input, g_script, g_names, g_run>>
    /\ UNCHANGED <<loop_vars, val_vars, split_vars, type_vars, stream_vars, deploy_vars, ui_vars>>

\* the returned code is run: self.create_transform_dataflow() of the emitted
\* class, with self.names = the emitted resource names
RunTransformDataflow ==
    /\ g_pc = "returned"
    /\ g_run = NotRun
    /\ g_run' = create_transform_dataflow(g_names, g_input.dim_tables,
                                          g_input.fact_tables)
    /\ UNCHANGED <<g_input, g_script, g_transformations, g_sinks, g_names,
                   g_code, g_pc>>
    /\ UNCHANGED <<loop_vars, val_vars, split_vars, type_vars, stream_vars, deploy_vars, ui_vars>>

GenNext == GenerateScript \/ GenerateMethodCode \/ RunTransformDataflow

SpecGen == GenInit /\ [][GenNext]_vars

\* a call of analyze_csv_structure_v2 on an agent constructed with or without
\* a client, followed by _normalize_dimensions on the split's dimensions (as
\* generate_pipeline_prompt and generate_python_sdk_code do)
SplitInit ==
    /\ client = TRUE
    /\ LoopIdle
    /\ ValIdle
    /\ GenIdle
    /\ TypeIdle
    /\ StreamIdle
    /\ DeployIdle
    /\ UiIdle
    /\ s_pc = "called"
    /\ s_client \in BOOLEAN
    /\ s_df \in DataFrames
    /\ s_reply = NoSplitReply
    /\ s_split = NoSplit
    /\ s_normalized = <<>>

AnalyzeCsv ==
    /\ s_pc = "called"
    /\ \E reply \in (IF s_client THEN SplitReplies ELSE {NoSplitReply}) :
         /\ s_reply' = reply
         /\ s_split' = analyze_csv_structure_v2(s_client, s_df, reply)
    /\ s_pc' = "split"
    /\ UNCHANGED <<s_client, s_df, s_normalized>>
    /\ UNCHANGED <<loop_vars, val_vars, gen_vars, type_vars, stream_vars, deploy_vars, ui_vars>>

NormalizeDimensions ==
    /\ s_pc = "split"
    /\ s_normalized' = _normalize_dimensions(s_split.dimensions)
    /\ s_pc' = "normalized"
    /\ UNCHANGED <<s_client, s_df, s_reply, s_split>>
    /\ UNCHANGED <<loop_vars, val_vars, gen_vars, type_vars, stream_vars, deploy_vars, ui_vars>>

SplitNext == AnalyzeCsv \/ NormalizeDimensions

SpecSplit == SplitInit /\ [][SplitNext]_vars

\* a call of _create_fallback_datatypes
TypeInit ==
    /\ client = TRUE
    /\ LoopIdle
    /\ ValIdle
    /\ GenIdle
    /\ SplitIdle
    /\ StreamIdle
    /\ DeployIdle
    /\ UiIdle
    /\ t_pc = "called"
    /\ t_df \in TypeDataFrames
    /\ t_columns = <<>>

FallbackDatatypes ==
    /\ t_pc = "called"
    /\ t_columns' = _create_fallback_datatypes(t_df)
    /\ t_pc' = "returned"
    /\ UNCHANGED t_df
    /\ UNCHANGED <<loop_vars, val_vars, gen_vars, split_vars, stream_vars, deploy_vars, ui_vars>>

TypeNext == FallbackDatatypes

SpecTypes == TypeInit /\ [][TypeNext]_vars

\* a call of _stream_chat_completion
StreamInit ==
    /\ client \in BOOLEAN
    /\ LoopIdle
    /\ ValIdle
    /\ GenIdle
    /\ SplitIdle
    /\ TypeIdle
    /\ DeployIdle
    /\ UiIdle
    /\ st_pc = "called"
    /\ st_chunks \in Streams
    /\ st_fail_at \in {NoFailure} \cup (0 .. (Len(st_chunks) + 1))
    /\ st_nonstreamed \in NonStreamedOutcomes
    /\ st_container \in BOOLEAN
    /\ st_pos = 0
    /\ st_full_response = <<>>
    /\ st_shown = NothingShown
    /\ st_result = NoStreamResult

\* lines 122-123
StreamNoClient ==
    /\ st_pc = "called"
    /\ ~client
    /\ st_result' = StreamRaised("ValueError")
    /\ st_pc' = "raised"
    /\ UNCHANGED <<st_chunks, st_fail_at, st_nonstreamed, st_container, st_pos,
                   st_full_response, st_shown>>
    /\ UNCHANGED <<loop_vars, val_vars, gen_vars, split_vars, type_vars, deploy_vars, ui_vars>>

\* lines 146-148: the request with stream = True
StreamCreate ==
    /\ st_pc = "called"
    /\ client
    /\ st_pc' = IF st_fail_at = 0 THEN "fallback" ELSE "streaming"
    /\ UNCHANGED <<st_chunks, st_fail_at, st_nonstreamed, st_container, st_pos,
                   st_full_response, st_shown, st_result>>
    /\ UNCHANGED <<loop_vars, val_vars, gen_vars, split_vars, type_vars, deploy_vars, ui_vars>>

\* lines 149-167: one iteration of the loop over the stream
StreamChunk ==
    /\ st_pc = "streaming"
    /\ st_pos < Len(st_chunks)
    /\ st_fail_at # st_pos + 1
    /\ st_pos' = st_pos + 1
    /\ st_full_response' = AddChunk(st_full_response, st_chunks[st_pos + 1])
    /\ st_shown' = IF /\ st_chunks[st_pos + 1].choices
                      /\ st_chunks[st_pos + 1].has_content
                      /\ st_container
                   THEN Shown(FormatOf(st_full_response'), st_full_response', TRUE)
                   ELSE st_shown
    /\ UNCHANGED <<st_chunks, st_fail_at, st_nonstreamed, st_container, st_result, st_pc>>
    /\ UNCHANGED <<loop_vars, val_vars, gen_vars, split_vars, type_vars, deploy_vars, ui_vars>>

\* reading the stream raises: lines 180-183
StreamRaises ==
    /\ st_pc = "streaming"
    /\ st_fail_at = st_pos + 1
    /\ st_pc' = "fallback"
    /\ UNCHANGED <<st_chunks, st_fail_at, st_nonstreamed, st_container, st_pos,
                   st_full_response, st_shown, st_result>>
    /\ UNCHANGED <<loop_vars, val_vars, gen_vars, split_vars, type_vars, deploy_vars, ui_vars>>

\* lines 169-178: the stream has ended
StreamEnd ==
    /\ st_pc = "streaming"
    /\ st_pos = Len(st_chunks)
    /\ st_fail_at # st_pos + 1
    /\ st_shown' = IF st_container
                   THEN Shown(FormatOf(st_full_response), st_full_response, FALSE)
                   ELSE st_shown
    /\ st_result' = StreamReturned(st_full_response)
    /\ st_pc' = "returned"
    /\ UNCHANGED <<st_chunks, st_fail_at, st_nonstreamed, st_container, st_pos,
                   st_full_response>>
    /\ UNCHANGED <<loop_vars, val_vars, gen_vars, split_vars, type_vars, deploy_vars, ui_vars>>

\* lines 184-195: the request with stream = False
StreamFallback ==
    /\ st_pc = "fallback"
    /\ IF st_nonstreamed.ok
       THEN /\ st_full_response' = fallback_response(st_full_response, st_nonstreamed)
            /\ st_shown' = IF st_container
                           THEN Shown("warning", st_full_response', FALSE)
                           ELSE st_shown
            /\ st_result' = StreamReturned(st_full_response')
            /\ st_pc' = "returned"
       ELSE /\ st_result' = StreamRaised("StreamError")
            /\ st_pc' = "raised"
            /\ UNCHANGED <<st_full_response, st_shown>>
    /\ UNCHANGED <<st_chunks, st_fail_at, st_nonstreamed, st_container, st_pos>>
    /\ UNCHANGED <<loop_vars, val_vars, gen_vars, split_vars, type_vars, deploy_vars, ui_vars>>

StreamNext ==
    \/ StreamNoClient
    \/ StreamCreate
    \/ StreamChunk
    \/ StreamRaises
    \/ StreamEnd
    \/ StreamFallback

SpecStream == StreamInit /\ [][StreamNext]_vars

\* one call of deploy_generated_code and one of run_pipeline
DeployInit ==
    /\ client = TRUE
    /\ LoopIdle
    /\ ValIdle
    /\ GenIdle
    /\ SplitIdle
    /\ TypeIdle
    /\ StreamIdle
    /\ UiIdle
    /\ d_pc = "called"
    /\ d_setup \in {"ok", "no_class", "missing_credentials"}
    /\ d_signature \in Signatures
    /\ d_config \in BOOLEAN
    /\ d_target \in Targets
    /\ d_calls = 0
    /\ d_runs = 0
    /\ d_deployed = FALSE
    /\ d_result = NoDeployResult
    /\ r_pc = "called"
    /\ r_name \in PipelineNames
    /\ r_client \in BOOLEAN
    /\ r_service \in RunServices
    /\ r_calls = 0
    /\ r_result = NoRunResult

\* deploy_generated_code up to the first call of deploy_complete_solution
\* (lines 523-852)
DeployPrepare ==
    /\ d_pc = "called"
    /\ IF d_setup = "no_class"
       THEN /\ d_result' = DeployResult("false", "Could not find pipeline class")
            /\ d_pc' = "returned"
       ELSE IF d_setup = "missing_credentials"
       THEN /\ d_result' = DeployResult("false", "Azure credentials not configured")
            /\ d_pc' = "returned"
       ELSE IF HasAdditionalParameters(d_signature) /\ ~d_config
       THEN /\ d_result' = DeployResult("false", "Missing configuration for deployment")
            /\ d_pc' = "returned"
       ELSE /\ d_pc' = "first_call"
            /\ UNCHANGED d_result
    /\ UNCHANGED <<d_setup, d_signature, d_config, d_target, d_calls, d_runs, d_deployed>>
    /\ UNCHANGED <<r_name, r_client, r_service, r_calls, r_result, r_pc>>
    /\ UNCHANGED <<loop_vars, val_vars, gen_vars, split_vars, type_vars, stream_vars, ui_vars>>

\* the call of line 854, or of line 862 for a method without parameters, and
\* the return of line 868 or of lines 911-920
DeployCall ==
    /\ d_pc = "first_call"
    /\ d_calls' = d_calls + 1
    /\ d_runs' = d_runs + 1
    /\ IF TargetAccepts(d_target, d_runs')
       THEN /\ d_deployed' = TRUE
            /\ d_result' = DeployResult("true", "Successfully deployed all the resources without any issues")
            /\ d_pc' = "returned"
       ELSE IF HasAdditionalParameters(d_signature)
       THEN /\ d_pc' = "second_call"
            /\ UNCHANGED <<d_deployed, d_result>>
       ELSE /\ d_result' = DeployResult("false", "Deployment failed (Exception)")
            /\ d_pc' = "returned"
            /\ UNCHANGED d_deployed
    /\ UNCHANGED <<d_setup, d_signature, d_config, d_target>>
    /\ UNCHANGED <<r_name, r_client, r_service, r_calls, r_result, r_pc>>
    /\ UNCHANGED <<loop_vars, val_vars, gen_vars, split_vars, type_vars, stream_vars, ui_vars>>

\* lines 855-860: the first call raised, the method is called without
\* arguments; a method whose parameters are required raises TypeError before
\* its body
DeployCallAgain ==
    /\ d_pc = "second_call"
    /\ d_calls' = d_calls + 1
    /\ d_runs' = IF d_signature = "optional" THEN d_runs + 1 ELSE d_runs
    /\ IF d_signature = "optional" /\ TargetAccepts(d_target, d_runs')
       THEN /\ d_deployed' = TRUE
            /\ d_result' = DeployResult("true", "Successfully deployed all the resources without any issues")
       ELSE /\ d_result' = DeployResult("false", "Deployment failed. Original error")
            /\ UNCHANGED d_deployed
    /\ d_pc' = "returned"
    /\ UNCHANGED <<d_setup, d_signature, d_config, d_target>>
    /\ UNCHANGED <<r_name, r_client, r_service, r_calls, r_result, r_pc>>
    /\ UNCHANGED <<loop_vars, val_vars, gen_vars, split_vars, type_vars, stream_vars, ui_vars>>

\* run_pipeline (lines 987-1021)
RunPipeline ==
    /\ r_pc = "called"
    /\ IF RunRejection(r_name, r_client) # NoRunResult
       THEN /\ r_result' = RunRejection(r_name, r_client)
            /\ UNCHANGED r_calls
       ELSE /\ r_calls' = r_calls + 1
            /\ r_result' = RunOutcome(r_service)
    /\ r_pc' = "returned"
    /\ UNCHANGED <<r_name, r_client, r_service>>
    /\ UNCHANGED <<d_setup, d_signature, d_config, d_target, d_calls, d_runs,
                   d_deployed, d_result, d_pc>>
    /\ UNCHANGED <<loop_vars, val_vars, gen_vars, split_vars, type_vars, stream_vars, ui_vars>>

DeployNext == DeployPrepare \/ DeployCall \/ DeployCallAgain \/ RunPipeline

SpecDeploy == DeployInit /\ [][DeployNext]_vars

\* a new UI session
UiInit ==
    /\ client = TRUE
    /\ LoopIdle
    /\ ValIdle
    /\ GenIdle
    /\ SplitIdle
    /\ TypeIdle
    /\ StreamIdle
    /\ DeployIdle
    /\ UiIdle

\* click on 'Generate Code' (generate_code_btn, lines 693-749); a click that
\* writes a code is counted against MaxGenerations
ClickGenerate ==
    /\ \E outcome \in GenerationOutcomes :
         /\ outcome = "code" => ui_generations < MaxGenerations
         /\ ui_generated_code' =
                CASE outcome = "code" -> ui_generations + 1
                  [] outcome = "no_code" -> ui_generated_code
                  [] outcome = "raises" -> NoneCode
         /\ ui_generations' = IF outcome = "code" THEN ui_generations + 1
                              ELSE ui_generations
         /\ \E azure_ml \in AzureMlKinds :
              ui_code_azure_ml' =
                  IF outcome = "code" THEN Append(ui_code_azure_ml, azure_ml)
                  ELSE ui_code_azure_ml
    /\ ui_deployment_success' = deployment_success_after_generation(ui_deployment_success)
    /\ UNCHANGED <<ui_pipeline_instance, ui_pipeline_started, ui_pipeline_names, ui_runs>>
    /\ UNCHANGED <<loop_vars, val_vars, gen_vars, split_vars, type_vars, stream_vars,
                   deploy_vars>>

\* click on 'Execute Code' (deploy_btn, lines 794-812)
ClickDeploy ==
    /\ Tab3Shown(ui_generated_code)
    /\ LET azure_ml == IF IsCode(ui_generated_code)
                       THEN ui_code_azure_ml[ui_generated_code] ELSE "none"
       IN \E outcome \in DeploymentOutcomes(ui_generated_code, ui_generations, azure_ml) :
            /\ ui_deployment_success' =
                   IF ~Returns(outcome) THEN ui_deployment_success
                   ELSE IF outcome = "deployed" THEN "true" ELSE "false"
            /\ ui_pipeline_instance' =
                   IF InstanceWritten(outcome) THEN fixed_code(ui_generated_code, azure_ml)
                   ELSE ui_pipeline_instance
            /\ ui_generated_code' = IF AutoFixed(outcome) THEN ui_generations + 1
                                    ELSE ui_generated_code
            /\ ui_generations' = IF AutoFixed(outcome) THEN ui_generations + 1
                                 ELSE ui_generations
            /\ \E fixed \in AutoFixedKinds :
                 ui_code_azure_ml' =
                     IF AutoFixed(outcome) THEN Append(ui_code_azure_ml, fixed)
                     ELSE ui_code_azure_ml
            /\ \E names \in NamesKinds :
                 ui_pipeline_names' =
                     IF outcome = "deployed"
                     THEN pipeline_names_after_deploy(ui_pipeline_names, names)
                     ELSE ui_pipeline_names
    /\ UNCHANGED <<ui_pipeline_started, ui_runs>>
    /\ UNCHANGED <<loop_vars, val_vars, gen_vars, split_vars, type_vars, stream_vars,
                   deploy_vars>>

\* click on 'Start Pipeline' (start_pipeline_btn, lines 814-861)
ClickStartPipeline ==
    /\ Tab3Shown(ui_generated_code)
    /\ deployment_ready(ui_deployment_success)
    /\ IF ReachesRunPipeline(ui_generated_code, ui_pipeline_names)
       THEN /\ Len(ui_runs) < MaxRuns
            /\ ui_runs' = Append(ui_runs, Run(ui_generated_code, ui_pipeline_instance))
            /\ \E started \in BOOLEAN :
                 ui_pipeline_started' = (ui_pipeline_started \/ started)
       ELSE UNCHANGED <<ui_pipeline_started, ui_runs>>
    /\ UNCHANGED <<ui_generated_code, ui_deployment_success, ui_pipeline_instance,
                   ui_generations, ui_code_azure_ml, ui_pipeline_names>>
    /\ UNCHANGED <<loop_vars, val_vars, gen_vars, split_vars, type_vars, stream_vars,
                   deploy_vars>>

UiNext == ClickGenerate \/ ClickDeploy \/ ClickStartPipeline

SpecUi == UiInit /\ [][UiNext]_vars

\* ---------------------------------------------------------------- properties
Last(seq) == seq[Len(seq)]
Issues(v) == {v.issues[i] : i \in DOMAIN v.issues}

\* C1: generate_python_sdk_code stops at the first attempt whose verdict
\* passes: as soon as the i-th verdict passes, i is the last attempt, no
\* Agent 3A, 3B or 3C call follows it (each has been called exactly i times),
\* and the call returns the code and the verdict of attempt i with
\* final_validation_status = true and attempt_count = i.
C1_StopsAtFirstPass ==
    \A i \in DOMAIN verdicts :
        VerdictPasses(verdicts[i]) =>
            /\ i = Len(verdicts)
            /\ Len(planner_calls) = i
            /\ Len(generator_calls) = i
            /\ Len(validator_calls) = i
            /\ pc \in {"decide", "done"}
            /\ pc = "done" =>
                 /\ result.status = "returned"
                 /\ result.code = generated[i]
                 /\ result.validation_result = verdicts[i]
                 /\ result.final_validation_status = TRUE
                 /\ result.attempt_count = i

\* a call that returned after its second attempt passed
C1_Witness ==
    /\ pc = "done"
    /\ result.status = "returned"
    /\ result.final_validation_status
    /\ Len(verdicts) = 2
    /\ ~VerdictPasses(verdicts[1])
    /\ VerdictPasses(verdicts[2])

\* C2: when an attempt was validated and no verdict passed, and the text
\* generation did not fail Agent 3B, generate_python_sdk_code does not raise:
\* it returns the code and the verdict of the last attempt with
\* final_validation_status = false, whatever Agent 3A, 3B and 3C returned.
C2_NeverRaisesOnExhaustion ==
    (/\ pc = "done"
     /\ verdicts # <<>>
     /\ \A i \in DOMAIN verdicts : ~VerdictPasses(verdicts[i])
     /\ ~service_error)
    => /\ result.status = "returned"
       /\ result.final_validation_status = FALSE
       /\ result.code = Last(generated)
       /\ result.validation_result = Last(verdicts)

\* C3: every call makes at most max_retries generate-then-validate attempts,
\* and the attempt_count it returns is the number of attempts performed, with
\* 1 <= attempt_count <= max_retries.
C3_AttemptCountInBounds ==
    /\ Len(generator_calls) <= max_retries
    /\ Len(validator_calls) <= max_retries
    /\ (pc = "done" /\ result.status = "returned") =>
         /\ result.attempt_count = Len(validator_calls)
         /\ 1 <= result.attempt_count
         /\ result.attempt_count <= max_retries

\* C4: the first Agent 3A call gets no feedback; the call made for attempt
\* k > 1 gets a feedback text that contains every issue listed in the verdict
\* of attempt k - 1.
C4_FeedbackHasEveryIssue ==
    \A k \in DOMAIN planner_calls :
        IF k = 1 THEN planner_calls[k] = NoFeedback
        ELSE /\ planner_calls[k].given
             /\ \A issue \in Issues(verdicts[k - 1]) :
                    Contains(planner_calls[k].text, issue)

\* C5: any code generate_python_sdk_code returns was given to
\* validate_generated_code, and the validation_result returned with it is the
\* verdict that call computed on exactly that code.
C5_ReturnedCodeWasValidated ==
    (pc = "done" /\ result.status = "returned") =>
        \E i \in DOMAIN validator_calls :
            /\ validator_calls[i] = result.code
            /\ verdicts[i] = result.validation_result

\* C6: every verdict validate_generated_code returns has is_valid = true if
\* and only if its issues list is empty.
C6_ValidIffNoIssues ==
    v_pc = "returned" =>
        (v_verdict.is_valid = "true"
            <=> (v_verdict.issues_kind = "list" /\ v_verdict.issues = <<>>))

\* C7: if the code fails the syntax check, validation short-circuits: the
\* verdict's issues are the syntax defect and nothing else.
C7_SyntaxErrorShortCircuits ==
    (v_pc = "returned" /\ SyntaxIssues(v_code) # <<>>) =>
        v_verdict.issues = <<IssueSyntax>>

\* the code has no defect but empty derive steps
OnlyEmptyDerive(c) ==
    /\ \E i \in DOMAIN c : c[i] = "EmptyDerive"
    /\ HasDeploy(c) /\ FirstDeploy(c) = "DeployFull"
    /\ \A i \in DOMAIN c : c[i] \in {"DeployFull", "EmptyDerive", "CastInteger", "Ws"}

\* C8: for code with empty derive steps (however many) and no other defect,
\* validate_generated_code returns is_valid = false with exactly one issue,
\* the empty-derive issue.
C8_EmptyDeriveReportedOnce ==
    (v_pc = "returned" /\ OnlyEmptyDerive(v_code)) =>
        /\ v_verdict.is_valid = "false"
        /\ v_verdict.issues = <<IssueEmptyDerive>>

\* the code has a cast whose type token is outside the closed vocabulary
HasNonCanonicalCast(c) ==
    \E i \in DOMAIN c :
        c[i] \in CastFragments /\ CastTypeToken(c[i]) \notin CanonicalVocabulary

\* C9: validate_generated_code returns a failing verdict whenever a cast in the
\* code uses a type token outside the closed vocabulary.
C9_NonCanonicalCastFails ==
    (v_pc = "returned" /\ HasNonCanonicalCast(v_code)) =>
        (v_verdict.kind = "dict" /\ v_verdict.is_valid = "false")

\* C10: in the code the generator emits, the names in the transformations
\* listing and the names of the sinks are disjoint: no Load* sink name of the
\* script or of the registered sinks is listed as a Transformation.
C10_SinksNotTransformations ==
    g_pc = "returned" =>
        \A i \in DOMAIN g_transformations :
            /\ \A j \in DOMAIN g_sinks : g_transformations[i] # g_sinks[j]
            /\ \A j \in DOMAIN g_script :
                   g_script[j].kind = "sink" => g_transformations[i] # g_script[j].name

\* C11: generate_pipeline_prompt returns a valid per-table decision mapping on
\* every call: whenever Agent 3A has been called, with or without a client and
\* whatever the text generation answered, the decision it returned is a
\* non-empty JSON object.
C11_PlannerAlwaysDecides ==
    planner_calls # <<>> => agent3a_decision.kind = "dict"

\* C12: without a text-generation client, the schema split returned by
\* analyze_csv_structure_v2 for a DataFrame with at least one column contains
\* at least one dimension.
C12_FallbackSplitHasDimension ==
    (s_pc # "called" /\ ~s_client /\ s_df # <<>>) =>
        s_split.dimensions.items # <<>>

\* C13: in every schema split analyze_csv_structure_v2 returns (the accepted
\* answer of the text generation, or the fallback analysis), and in its
\* normalized dimensions, the primary key of each dimension is one of the
\* columns of that dimension.
C13_PrimaryKeyAmongColumns ==
    /\ s_pc # "called" =>
         \A i \in DOMAIN s_split.dimensions.items :
             s_split.dimensions.items[i].primary_key
                 \in Elems(s_split.dimensions.items[i].columns)
    /\ s_pc = "normalized" =>
         \A i \in DOMAIN s_normalized :
             s_normalized[i].primary_key \in Elems(s_normalized[i].columns)

\* C14: the output of _normalize_dimensions holds no dimension whose name
\* contains the 'unknown' sentinel.
C14_NoUnknownDimension ==
    s_pc = "normalized" =>
        \A i \in DOMAIN s_normalized : ~ContainsUnknown(s_normalized[i].name)

\* C15: in the fallback schema split, foreign_keys maps a primary key to its
\* dimension only if that primary key is one of the fact table's columns.
C15_ForeignKeyInFactColumns ==
    (s_pc # "called" /\ s_split.path = "fallback") =>
        \A i \in DOMAIN s_split.foreign_keys :
            s_split.foreign_keys[i].name \in Elems(s_split.fact_columns)

\* the steps of a script of one kind
StepsOfKind(script, kind) ==
    LET IsKind(step) == step.kind = kind IN SelectSeq(script, IsKind)
\* how many entries of cols name the column col
Occurrences(cols, col) == Cardinality({k \in DOMAIN cols : cols[k].col = col})

\* C16: for every dimension D with primary key P written into the script, the
\* aggregate step groups by P, lists every other column of D exactly once as
\* a first() reduction, and never lists P; a column is the name written in
\* the script (the select step of D lists the columns of D).
C16_AggregateListsOtherColumnsOnce ==
    g_pc # "called" =>
        \A i \in DOMAIN g_script :
            g_script[i].kind = "aggregate" =>
                LET agg == g_script[i]
                    sel == g_script[CHOOSE j \in DOMAIN g_script :
                                        g_script[j].name = agg.input]
                    dim == g_input.dimensions[CHOOSE d \in DOMAIN g_input.dimensions :
                                        g_input.dimensions[d].name = agg.table]
                IN /\ dim.primary_key # "" => agg.key = CleanCol(dim.primary_key)
                   /\ \A k \in DOMAIN agg.cols :
                          agg.cols[k].how = "first" /\ agg.cols[k].col # agg.key
                   /\ \A j \in DOMAIN sel.cols :
                          sel.cols[j].col # agg.key =>
                              Occurrences(agg.cols, sel.cols[j].col) = 1

\* the tables that have steps in a script, and the steps of one table in the
\* order they are written
TablesOf(script) == {script[i].table : i \in DOMAIN script} \ {""}
ChainOf(script, table) ==
    LET OfTable(step) == step.table = table IN SelectSeq(script, OfTable)
\* position of a kind of step in the fixed order
KindRank(kind) ==
    CASE kind = "select" -> 1
      [] kind = "aggregate" -> 2
      [] kind = "derive" -> 3
      [] kind = "cast" -> 4
      [] kind = "sink" -> 5
      [] OTHER -> 0

\* C17: every table chain of the generated script follows the order select,
\* aggregate, derive, cast, sink: the chain starts with a select of the
\* source, each later step reads the step written before it for the same
\* table, the kinds come in the fixed order (a derive before a cast), and the
\* chain ends in its only sink.
C17_ChainOrder ==
    g_pc # "called" =>
        \A table \in TablesOf(g_script) :
            LET chain == ChainOf(g_script, table)
            IN /\ chain[1].kind = "select"
               /\ chain[1].input = "StagingSource"
               /\ \A k \in 2..Len(chain) :
                      /\ chain[k].input = chain[k - 1].name
                      /\ KindRank(chain[k - 1].kind) < KindRank(chain[k].kind)
               /\ chain[Len(chain)].kind = "sink"
               /\ Len(StepsOfKind(chain, "sink")) = 1

\* a script with a dimension chain that has a derive step, and a chain that
\* has a cast step, has been generated
C17_Witness ==
    /\ g_pc = "returned"
    /\ StepsOfKind(g_script, "derive") # <<>>
    /\ StepsOfKind(g_script, "cast") # <<>>
    /\ Cardinality(TablesOf(g_script)) >= 2

\* the derive expressions decided for a table: those of its date fields when
\* the derive is found needed for a dimension, none for the fact table
DecidedDeriveCols(gi, table) ==
    IF \E d \in DOMAIN gi.dimensions : gi.dimensions[d].name = table
    THEN LET dim == gi.dimensions[CHOOSE d \in DOMAIN gi.dimensions :
                                      gi.dimensions[d].name = table]
         IN IF DimDeriveNeeded(dim, gi.context_keyword)
            THEN DimDeriveCols(dim) ELSE <<>>
    ELSE <<>>

\* C18: a derive step is present in the chain of a table if and only if the
\* derive expressions decided for that table are not empty, whether or not
\* the chain also has a cast step.
C18_DeriveIffDeriveColumns ==
    g_pc # "called" =>
        \A table \in TablesOf(g_script) :
            (StepsOfKind(ChainOf(g_script, table), "derive") # <<>>)
                <=> (DecidedDeriveCols(g_input, table) # <<>>)

\* C19: for a schema split whose N dimensions all have a name free of the
\* 'unknown' sentinel and at least one column, and which has a fact table
\* (fact columns and a destination fact table), the generated script has
\* exactly N + 1 select steps, N aggregate steps and N + 1 sink steps.
C19_StepCounts ==
    (/\ g_pc # "called"
     /\ \A d \in DOMAIN g_input.dimensions :
            /\ ~ContainsUnknown(g_input.dimensions[d].name)
            /\ g_input.dimensions[d].columns # <<>>
     /\ g_input.fact_columns # <<>>
     /\ g_input.fact_tables # <<>>) =>
        LET N == Len(g_input.dimensions)
        IN /\ Len(StepsOfKind(g_script, "select")) = N + 1
           /\ Len(StepsOfKind(g_script, "aggregate")) = N
           /\ Len(StepsOfKind(g_script, "sink")) = N + 1

\* C20: the sinks registered for the transform data flow match its script:
\* every sink name Load{T} written in the script is registered exactly once,
\* every registered sink is bound to the dataset of its destination table T,
\* and every registered sink name is written in the script.
C20_SinksMatchScript ==
    g_pc = "returned" =>
        LET written == StepNames(StepsOfKind(g_script, "sink"))
            tables == g_input.dim_tables \o Take(g_input.fact_tables, 1)
            datasets == emitted_sink_datasets(g_input.dim_tables, g_input.fact_tables)
        IN /\ \A i \in DOMAIN written :
                  Cardinality({j \in DOMAIN g_sinks : g_sinks[j] = written[i]}) = 1
           /\ \A j \in DOMAIN g_sinks :
                  /\ g_sinks[j] \in Elems(written)
                  /\ g_sinks[j] = "Load" \o tables[j]
                  /\ datasets[j] = tables[j] \o "Dataset"

\* C21: _generate_resource_names is collision-free: distinct destination
\* dimension tables get distinct dataset keys and distinct dataset names, so
\* the names dict holds one entry per table (beside the fact table's entry)
\* and every table still finds its own dataset in it.
C21_ResourceNamesCollisionFree ==
    g_pc # "called" =>
        /\ \A i, j \in DOMAIN g_input.dim_tables :
               g_input.dim_tables[i] # g_input.dim_tables[j] =>
                   /\ ResourceNameKey(g_input.dim_tables[i])
                          # ResourceNameKey(g_input.dim_tables[j])
                   /\ g_input.dim_tables[i] \o "Dataset"
                          # g_input.dim_tables[j] \o "Dataset"
        /\ Len(g_names) = 1 + Len(g_input.dim_tables)
        /\ \A i \in DOMAIN g_input.dim_tables :
               NameOf(g_names, ResourceNameKey(g_input.dim_tables[i]))
                   = g_input.dim_tables[i] \o "Dataset"

\* v lies in the 32-bit signed range [-2147483648, 2147483647]
InInt32(v) == IF v.neg THEN v.off <= 1 ELSE v.off <= 0

\* C22: in the type fallback, an integer column is given type long (BIGINT)
\* if and only if its observed minimum or maximum lies outside the 32-bit
\* signed range [-2147483648, 2147483647]; otherwise it is given type integer.
C22_LongIffOutsideInt32 ==
    t_pc = "returned" =>
        \A i \in DOMAIN t_df :
            (t_df[i].dtype = "int64" /\ t_df[i].has_values) =>
                /\ t_columns[i].adf_type = "long"
                       <=> (~InInt32(t_df[i].min_val) \/ ~InInt32(t_df[i].max_val))
                /\ t_columns[i].adf_type \in {"long", "integer"}

\* the cast type the static table of the specification gives a SQL type
StaticCastType(sql_type) ==
    CASE sql_type \in {"INT", "SMALLINT", "TINYINT"} -> "integer"
      [] sql_type = "BIGINT" -> "long"
      [] sql_type \in {"FLOAT", "REAL"} -> "double"
      [] sql_type \in {"DECIMAL", "NUMERIC", "MONEY"} -> "decimal"
      [] sql_type = "BIT" -> "boolean"
      [] sql_type \in {"DATETIME", "DATETIME2", "SMALLDATETIME"} -> "timestamp"
      [] sql_type = "DATE" -> "date"
      [] OTHER -> "none"

\* C23: every deterministic conversion of a SQL type to a cast type follows
\* the static table: INT, SMALLINT, TINYINT give integer; BIGINT long; FLOAT,
\* REAL double; DECIMAL, NUMERIC, MONEY decimal; BIT boolean; DATETIME,
\* DATETIME2, SMALLDATETIME timestamp; DATE date.  Outside the healthcare
\* context every entry of a cast step is such a conversion.
C23_CastFollowsStaticTable ==
    (g_pc # "called" /\ ~IsHealthcare(g_input.context_keyword)) =>
        \A i \in DOMAIN g_script :
            g_script[i].kind = "cast" =>
                \A k \in DOMAIN g_script[i].cols :
                    g_script[i].cols[k].how =
                        StaticCastType(g_input.column_types[g_script[i].cols[k].col])

\* the concatenation, in arrival order, of the fragments of a stream
RECURSIVE AllFragments(_)
AllFragments(chunks) ==
    IF chunks = <<>> THEN <<>>
    ELSE (IF Head(chunks).choices /\ Head(chunks).has_content
          THEN Head(chunks).content ELSE <<>>) \o AllFragments(Tail(chunks))

\* C24: the text _stream_chat_completion hands back is always a complete
\* response: the concatenation, in arrival order, of all fragments of the
\* stream when streaming did not fail, and the full non-streamed response when
\* it failed; a partially received stream is never returned.
C24_OnlyCompleteResponse ==
    st_result.kind = "returned" =>
        IF st_fail_at = NoFailure
        THEN st_result.text = AllFragments(st_chunks)
        ELSE st_nonstreamed.ok /\ st_result.text = st_nonstreamed.content

\* a stream failed after a fragment had arrived, and the call returned
C24_Witness ==
    /\ st_result.kind = "returned"
    /\ st_fail_at > 1
    /\ AllFragments(SubSeq(st_chunks, 1, st_pos)) # <<>>
    /\ st_pos < Len(st_chunks)

\* C25: a failure of the deployment target is never retried: a call of
\* deploy_generated_code calls the generated deploy_complete_solution at most
\* once, a call of run_pipeline calls create_run at most once, and a failure is
\* returned to the caller as a (failure, message) pair.
C25_DeploymentFailureNotRetried ==
    /\ d_calls <= 1
    /\ r_calls <= 1
    /\ (d_pc = "returned" /\ d_runs > 0 /\ ~TargetAccepts(d_target, 1)) =>
           (d_result.ok = "false" /\ d_result.message # "")
    /\ (r_pc = "returned" /\ r_calls > 0 /\ r_service # "ok") =>
           (r_result.run_id = "None" /\ r_result.message # "")

\* C26: when Agent 3A returns no decision while regenerating after a failed
\* validation, the next attempt generates code from the previous decision:
\* every call of Agent 3B after the first is given a decision, the new one or
\* the one before.
C26_RegenerationKeepsPreviousDecision ==
    \A k \in DOMAIN generator_calls :
        k >= 2 =>
            /\ Truthy(generator_calls[k])
            /\ generator_calls[k].id <= k

\* C27: validate_generated_code never returns is_valid = true for code that
\* fails one of its deterministic pre-checks (deploy_complete_solution missing
\* or lacking sql_config or blob_config, SQL type in a cast, syntax error,
\* empty derive, Load* name as a Transformation), with or without a
\* text-generation client.
C27_PreCheckFailureNeverValid ==
    (v_pc = "returned" /\ pre_check_issues(v_code) # <<>>) =>
        v_verdict.is_valid # "true"

\* C28: the code _generate_complete_sdk_code produces passes every
\* deterministic pre-check of validate_generated_code: it compiles, defines
\* deploy_complete_solution with the parameters sql_config and blob_config,
\* contains no empty derive step and lists no Load* name as a Transformation.
C28_GeneratedCodePassesPreChecks ==
    g_pc = "returned" => pre_check_issues(g_code) = <<>>

\* C29: for every destination dimension table, the dataset key the generated
\* create_transform_dataflow computes for the table's sink equals the key under
\* which _generate_resource_names stored the table's dataset, so the lookup
\* self.names[dataset_key] finds an entry and the data flow is created.
C29_SinkKeyFindsDataset ==
    /\ g_pc # "called" =>
           \A i \in DOMAIN g_input.dim_tables :
               /\ SinkDatasetKey(g_input.dim_tables[i]) = ResourceNameKey(g_input.dim_tables[i])
               /\ NameOf(g_names, SinkDatasetKey(g_input.dim_tables[i])) # "KeyError"
    /\ g_run.status # "KeyError"

\* C30: in the UI session 'Start Pipeline' can be triggered only when the
\* code held in the session has been deployed successfully: whenever the button
\* is enabled, and at every pipeline run started, the code held is a code and
\* the instance deployed is that of the held code (as it is, or as the
\* deployment rewrote it before executing it); after a new code is generated
\* or a generation fails, no run starts before that code is deployed with
\* success.
C30_StartOnlyAfterDeployOfHeldCode ==
    /\ (Tab3Shown(ui_generated_code) /\ deployment_ready(ui_deployment_success)) =>
           (IsCode(ui_generated_code)
            /\ ui_pipeline_instance.code = ui_generated_code)
    /\ \A i \in DOMAIN ui_runs :
           IsCode(ui_runs[i].held) /\ ui_runs[i].deployed.code = ui_runs[i].held

====
